---- MODULE Spec2Model ----
(***************************************************************************)
(* A model of degenbot's Solidly/Aerodrome swap math                       *)
(* (src/src/degenbot/solidly/solidly_functions.py) and of the              *)
(* AerodromeV2Pool facade (src/src/degenbot/aerodrome/pools.py).           *)
(*                                                                         *)
(* Python integers are unbounded and the source works in 18-decimal fixed  *)
(* point (10**18) with a 2**256-1 range check.  TLC integers are 32 bits   *)
(* wide, so the fixed-point unit and the range check are scaled: WAD       *)
(* stands for 10**18 and UintBits for 256.  Every formula of the source is *)
(* kept as written, with WAD in the place of 10**18.                       *)
(***************************************************************************)
EXTENDS Integers, Sequences, FiniteSets, TLC

VARIABLES
    fn,      \* SpecSolver: the function of the pending / finished call
    args,    \* SpecSolver: its arguments
    ret,     \* SpecSolver: its outcome (a return value or a raised exception)
    pool,    \* Spec: the pool's configuration (tokens, decimals, fee, stable)
    state,   \* Spec: the pool's live state object (self._state)
    call,    \* Spec: the calculate_tokens_out_from_tokens_in call in progress
    _state_lock,    \* the thread inside "with self._state_lock", or Unlocked
    setters,        \* SpecThreads: each thread's setter call in progress
    _subscribers,   \* SpecThreads: the pool's set of subscribers
    notifications,  \* SpecThreads: notify() calls received, per subscriber
    dicts,          \* SpecV3State: the dict objects, by identity
    entries,        \* SpecV3State: the per-word / per-tick entry objects
    snapshots,      \* SpecV3State: the UniswapV3PoolState objects
    op,             \* SpecV3State: the last operation and the state it acted on
    fetch,          \* SpecFetch: the locals of the fetch_logs_retrying call
    get_logs_calls, \* SpecFetch: the w3.eth.get_logs requests made, with outcomes
    inbox,          \* SpecSubscribers: FakeSubscriber.inbox, per subscriber
    latest,         \* SpecSubscribers: each subscriber's latest call on the pool
    published,      \* SpecSubscribers: the messages the pool has sent
    balance,        \* SpecLedger: UniswapTransaction.balance
    adjustments,    \* SpecLedger: the _adjust_balance calls made
    _anvil_command, \* SpecAnvil: AnvilFork._anvil_command
    _fork_url,      \* SpecAnvil: AnvilFork._fork_url
    resets          \* SpecAnvil: the reset calls made

v3Vars == <<dicts, entries, snapshots, op>>

fetchVars == <<fetch, get_logs_calls>>

subVars == <<inbox, latest, published>>

ledgerVars == <<balance, adjustments>>

anvilVars == <<_anvil_command, _fork_url, resets>>

moreVars == <<v3Vars, fetchVars, subVars, ledgerVars, anvilVars>>

coreVars == <<fn, args, ret, pool, state, call,
              _state_lock, setters, _subscribers, notifications>>

\* The variables a specification leaves alone.
notV3 == <<coreVars, fetchVars, subVars, ledgerVars, anvilVars>>

notFetch == <<pool, state, call, _state_lock, setters, _subscribers,
              notifications, v3Vars, subVars, ledgerVars, anvilVars>>

notSubs == <<fn, args, ret, pool, state, call, _state_lock, setters,
             notifications, v3Vars, fetchVars, ledgerVars, anvilVars>>

notLedger == <<coreVars, v3Vars, fetchVars, subVars, anvilVars>>

notAnvil == <<ret, pool, state, call, _state_lock, setters, _subscribers,
              notifications, v3Vars, fetchVars, subVars, ledgerVars>>

vars == <<fn, args, ret, pool, state, call,
          _state_lock, setters, _subscribers, notifications, moreVars>>

\* No UniswapV3PoolState object exists.
NoV3 ==
    /\ dicts = <<>>
    /\ entries = <<>>
    /\ snapshots = <<>>
    /\ op = [name |-> "none"]

\* No fetch_logs_retrying call has been made.
NoFetch ==
    /\ fetch = [pc |-> "none"]
    /\ get_logs_calls = <<>>

\* No subscriber has called the pool and nothing has been published.
NoSubs ==
    /\ inbox = <<>>
    /\ latest = <<>>
    /\ published = <<>>

\* No UniswapTransaction exists.
NoLedger ==
    /\ balance = <<>>
    /\ adjustments = <<>>

\* No AnvilFork exists.
NoAnvil ==
    /\ _anvil_command = <<>>
    /\ _fork_url = ""
    /\ resets = <<>>

NoMore == NoV3 /\ NoFetch /\ NoSubs /\ NoLedger /\ NoAnvil

solverVars == <<fn, args, ret>>

threadVars == <<setters, _subscribers, notifications>>

----------------------------------------------------------------------------
(* Bounds of the model *)

WAD == 100
UintBits == 24
MaxAmount == 5
MaxReserve == 12
MaxXY == 4

(* Program constants *)

MaxIterations == 255

MIN_UINT256 == 0
MAX_UINT256 == 2^UintBits - 1

(* Input domains *)

Amounts == (-1)..MaxAmount
Reserves == {5 * i : i \in 0..MaxReserve}
XYs == {5 * i : i \in 0..MaxXY}
Decimals == {10, 100}
Fees == {[numerator |-> 0, denominator |-> 1], [numerator |-> 1, denominator |-> 3]}
TokenIds == {0, 1, 2}

----------------------------------------------------------------------------
(* Python arithmetic and outcomes *)

Abs(n) == IF n < 0 THEN -n ELSE n

\* Python's n // d on integers (floor division), d # 0.
FloorDiv(n, d) ==
    IF d > 0 THEN n \div d ELSE (-n) \div (-d)

\* A returned value.
Ok(v) == [kind |-> "ok", value |-> v, iters |-> 0, dzero |-> FALSE, exhausted |-> FALSE]

\* A raised exception.
Raise(k) == [kind |-> k, value |-> 0, iters |-> 0, dzero |-> FALSE, exhausted |-> FALSE]

IsOk(r) == r.kind = "ok"

\* a * b lies outside [MIN_UINT256, MAX_UINT256], decided without forming a
\* product wider than the model's integers.
InvalidUint256Product(a, b) ==
    IF a = 0 \/ b = 0 THEN MIN_UINT256 > 0
    ELSE IF (a < 0) # (b < 0) THEN TRUE
    ELSE Abs(a) > MAX_UINT256 \div Abs(b)

----------------------------------------------------------------------------
(* solidly_functions.py *)

_d(x0, y) ==
    FloorDiv(3 * x0 * FloorDiv(y * y, WAD), WAD)
        + FloorDiv(FloorDiv(x0 * x0, WAD) * x0, WAD)

_f_aerodrome(x0, y) ==
    LET _a == FloorDiv(x0 * y, WAD)
        _b == FloorDiv(x0 * x0, WAD) + FloorDiv(y * y, WAD)
    IN  FloorDiv(_a * _b, WAD)

_f_camelot(x0, y) ==
    FloorDiv(x0 * FloorDiv(FloorDiv(y * y, WAD) * y, WAD), WAD)
        + FloorDiv(FloorDiv(FloorDiv(x0 * x0, WAD) * x0, WAD) * y, WAD)

_k_aerodrome(balance_0, balance_1, decimals_0, decimals_1) ==
    IF decimals_0 = 0 \/ decimals_1 = 0 THEN Raise("ZeroDivisionError")
    ELSE
        LET _x == FloorDiv(balance_0 * WAD, decimals_0)
            _y == FloorDiv(balance_1 * WAD, decimals_1)
            _a == FloorDiv(_x * _y, WAD)
            _b == FloorDiv(_x * _x, WAD) + FloorDiv(_y * _y, WAD)
        IN  IF InvalidUint256Product(_a, _b) THEN Raise("EVMRevertError")
            ELSE Ok(FloorDiv(_a * _b, WAD))

\* A for-loop "for _ in range(255)" is run as repeated passes of its body over
\* a loop state [i, y, out]: the number of iterations entered, the current y
\* and, once the loop has left (by return or raise), the outcome. 256 passes
\* cover the 255 iterations and the statement that follows the loop.
Running == [kind |-> "running", value |-> 0, iters |-> 0, dzero |-> FALSE, exhausted |-> FALSE]

LoopDone(s) == s.out.kind # "running"

\* An approximate return in the place of the raise.
GetYAerodromeExhausted_returns_y(s) ==
    [kind |-> "ok", value |-> s.y, iters |-> s.i, dzero |-> FALSE, exhausted |-> TRUE]

\* The statement after _get_y_aerodrome's loop:
\* raise EVMRevertError("Failed to converge on a value for y").
GetYAerodromeExhausted(s) ==
    [kind |-> "EVMRevertError", value |-> 0, iters |-> s.i, dzero |-> FALSE, exhausted |-> TRUE]

\* One pass of the body of _get_y_aerodrome's loop (the raise after the loop
\* when all iterations are used up). The outcome carries the number of
\* iterations entered (iters), whether _d evaluated to 0 (dzero) and whether
\* the loop ran out of iterations (exhausted).
GetYAerodromeBody(s, x0, xy, decimals0, decimals1) ==
    IF LoopDone(s) THEN s
    ELSE IF s.i = MaxIterations
    THEN [s EXCEPT !.out = GetYAerodromeExhausted(s)]
    ELSE
        LET y == s.y
            k == _f_aerodrome(x0, y)
            d == _d(x0, y)
            Return(v) == [s EXCEPT !.i = s.i + 1, !.out =
                [kind |-> "ok", value |-> v, iters |-> s.i + 1, dzero |-> FALSE, exhausted |-> FALSE]]
            Throw(e, dz) == [s EXCEPT !.i = s.i + 1, !.out =
                [kind |-> e, value |-> 0, iters |-> s.i + 1, dzero |-> dz, exhausted |-> FALSE]]
            Continue(v) == [s EXCEPT !.i = s.i + 1, !.y = v]
        IN  IF d = 0 THEN Throw("ZeroDivisionError", TRUE)
            ELSE IF k < xy
            THEN
                LET dy == FloorDiv((xy - k) * WAD, d)
                    k1 == _k_aerodrome(x0, y + 1, decimals0, decimals1)
                IN  IF dy = 0
                    THEN IF k = xy THEN Return(y)
                         ELSE IF ~IsOk(k1) THEN Throw(k1.kind, FALSE)
                         ELSE IF k1.value > xy THEN Return(y + 1)
                         ELSE Continue(y + 1)
                    ELSE Continue(y + dy)
            ELSE
                LET dy == FloorDiv((k - xy) * WAD, d)
                IN  IF dy = 0
                    THEN IF k = xy \/ _f_aerodrome(x0, y - 1) < xy THEN Return(y)
                         ELSE Continue(y - 1)
                    ELSE Continue(y - dy)

\* n passes of the body, stopping once the loop has left.
RECURSIVE GetYAerodromeLoop(_, _, _, _, _, _)
GetYAerodromeLoop(n, s, x0, xy, decimals0, decimals1) ==
    IF n = 0 \/ LoopDone(s) THEN s
    ELSE GetYAerodromeLoop(n - 1, GetYAerodromeBody(s, x0, xy, decimals0, decimals1),
                           x0, xy, decimals0, decimals1)

\* m chunks of 16 passes (the evaluation stays shallow); 16 chunks make the
\* loop's 255 iterations and the raise that follows them.
RECURSIVE GetYAerodromeChunks(_, _, _, _, _, _)
GetYAerodromeChunks(m, s, x0, xy, decimals0, decimals1) ==
    IF m = 0 \/ LoopDone(s) THEN s
    ELSE GetYAerodromeChunks(m - 1,
             GetYAerodromeLoop(16, s, x0, xy, decimals0, decimals1),
             x0, xy, decimals0, decimals1)

_get_y_aerodrome(x0, xy, y, decimals0, decimals1) ==
    GetYAerodromeChunks(16, [i |-> 0, y |-> y, out |-> Running],
                        x0, xy, decimals0, decimals1).out

\* The test with a strict bound.
CamelotConverged_strict(y, y_prev) ==
    IF y > y_prev THEN y - y_prev < 1 ELSE y_prev - y < 1

\* The test that ends _get_y_camelot's loop early:
\* if y > y_prev: if y - y_prev <= 1 ... elif y_prev - y <= 1.
CamelotConverged(y, y_prev) ==
    IF y > y_prev THEN y - y_prev <= 1 ELSE y_prev - y <= 1

\* One pass of the body of _get_y_camelot's loop (the return after the loop when
\* all iterations are used up). s.ys is the sequence of values y has taken,
\* the argument first; the outcome carries it as trace.
GetYCamelotBody(s, x_0, xy) ==
    IF LoopDone(s) THEN s
    ELSE IF s.i = MaxIterations
    THEN [s EXCEPT !.out = [kind |-> "ok", value |-> s.y, iters |-> s.i,
                            dzero |-> FALSE, exhausted |-> TRUE, trace |-> s.ys]]
    ELSE
        LET y_prev == s.y
            k == _f_camelot(x_0, y_prev)
            d == _d(x_0, y_prev)
            y == IF k < xy
                 THEN y_prev + FloorDiv((xy - k) * WAD, d)
                 ELSE y_prev - FloorDiv((k - xy) * WAD, d)
            Return(v) == [s EXCEPT !.i = s.i + 1, !.y = v, !.ys = Append(s.ys, v),
                !.out = [kind |-> "ok", value |-> v, iters |-> s.i + 1,
                         dzero |-> FALSE, exhausted |-> FALSE, trace |-> Append(s.ys, v)]]
            Continue(v) == [s EXCEPT !.i = s.i + 1, !.y = v, !.ys = Append(s.ys, v)]
        IN  IF d = 0
            THEN [s EXCEPT !.i = s.i + 1, !.out =
                     [kind |-> "ZeroDivisionError", value |-> 0, iters |-> s.i + 1,
                      dzero |-> TRUE, exhausted |-> FALSE, trace |-> s.ys]]
            ELSE IF CamelotConverged(y, y_prev) THEN Return(y)
            ELSE Continue(y)

\* n passes of the body, stopping once the loop has left.
RECURSIVE GetYCamelotLoop(_, _, _, _)
GetYCamelotLoop(n, s, x_0, xy) ==
    IF n = 0 \/ LoopDone(s) THEN s
    ELSE GetYCamelotLoop(n - 1, GetYCamelotBody(s, x_0, xy), x_0, xy)

\* m chunks of 16 passes; 16 chunks make the loop's 255 iterations and the
\* return that follows them.
RECURSIVE GetYCamelotChunks(_, _, _, _)
GetYCamelotChunks(m, s, x_0, xy) ==
    IF m = 0 \/ LoopDone(s) THEN s
    ELSE GetYCamelotChunks(m - 1, GetYCamelotLoop(16, s, x_0, xy), x_0, xy)

_get_y_camelot(x_0, xy, y) ==
    GetYCamelotChunks(16, [i |-> 0, y |-> y, ys |-> <<y>>, out |-> Running],
                      x_0, xy).out

\* The output rounded up instead of down.
StableAmountOut_rounds_up(y, decimals_out) ==
    -FloorDiv(-(y * decimals_out), WAD)

\* The return of solidly_calc_exact_in_stable: the reserve delta back in the
\* output token's decimals.
StableAmountOut(y, decimals_out) ==
    FloorDiv(y * decimals_out, WAD)

\* The body of solidly_calc_exact_in_stable's try block.
StableTryBody(amount_in, token_in, reserves0, reserves1, decimals0, decimals1, fee) ==
    LET after_fee == amount_in - FloorDiv(amount_in * fee.numerator, fee.denominator)
        xy == _k_aerodrome(reserves0, reserves1, decimals0, decimals1)
        scaled_reserves_0 == FloorDiv(reserves0 * WAD, decimals0)
        scaled_reserves_1 == FloorDiv(reserves1 * WAD, decimals1)
        reserves_a == IF token_in = 0 THEN scaled_reserves_0 ELSE scaled_reserves_1
        reserves_b == IF token_in = 0 THEN scaled_reserves_1 ELSE scaled_reserves_0
        amount_in_after_fee ==
            IF token_in = 0 THEN FloorDiv(after_fee * WAD, decimals0)
            ELSE FloorDiv(after_fee * WAD, decimals1)
        got == _get_y_aerodrome(amount_in_after_fee + reserves_a, xy.value, reserves_b,
                                decimals0, decimals1)
        y == reserves_b - got.value
    IN  IF ~IsOk(xy) THEN xy
        ELSE IF token_in \notin {0, 1} THEN Raise("ValueError")
        ELSE IF ~IsOk(got) THEN got
        ELSE [got EXCEPT !.value =
                 StableAmountOut(y, IF token_in = 0 THEN decimals1 ELSE decimals0)]

\* No except clause.
StableExcept_uncaught(r) == r

\* The except clause: a ZeroDivisionError leaves as EVMRevertError.
StableExcept(r) ==
    IF r.kind = "ZeroDivisionError" THEN [r EXCEPT !.kind = "EVMRevertError"] ELSE r

solidly_calc_exact_in_stable(amount_in, token_in, reserves0, reserves1, decimals0, decimals1, fee) ==
    StableExcept(StableTryBody(amount_in, token_in, reserves0, reserves1,
                               decimals0, decimals1, fee))

\* The formula with the input left out of the denominator.
VolatileAmountOut_spot_price(amount_in_after_fee, reserves_a, reserves_b) ==
    IF reserves_a = 0 THEN Raise("ZeroDivisionError")
    ELSE Ok(FloorDiv(amount_in_after_fee * reserves_b, reserves_a))

\* The return of solidly_calc_exact_in_volatile.
VolatileAmountOut(amount_in_after_fee, reserves_a, reserves_b) ==
    IF reserves_a + amount_in_after_fee = 0 THEN Raise("ZeroDivisionError")
    ELSE Ok(FloorDiv(amount_in_after_fee * reserves_b,
                     reserves_a + amount_in_after_fee))

\* The function with token_in ignored in the choice of reserves.
solidly_calc_exact_in_volatile_no_swap(amount_in, token_in, reserves0, reserves1, fee) ==
    LET amount_in_after_fee ==
            amount_in - FloorDiv(amount_in * fee.numerator, fee.denominator)
    IN  IF token_in \notin {0, 1} THEN Raise("ValueError")
        ELSE VolatileAmountOut(amount_in_after_fee, reserves0, reserves1)

\* The function with the facade's amount check moved into it.
solidly_calc_exact_in_volatile_checked(amount_in, token_in, reserves0, reserves1, fee) ==
    LET amount_in_after_fee ==
            amount_in - FloorDiv(amount_in * fee.numerator, fee.denominator)
        reserves_a == IF token_in = 0 THEN reserves0 ELSE reserves1
        reserves_b == IF token_in = 0 THEN reserves1 ELSE reserves0
    IN  IF amount_in <= 0 THEN Raise("ZeroSwapError")
        ELSE IF token_in \notin {0, 1} THEN Raise("ValueError")
        ELSE VolatileAmountOut(amount_in_after_fee, reserves_a, reserves_b)

solidly_calc_exact_in_volatile(amount_in, token_in, reserves0, reserves1, fee) ==
    LET amount_in_after_fee ==
            amount_in - FloorDiv(amount_in * fee.numerator, fee.denominator)
        reserves_a == IF token_in = 0 THEN reserves0 ELSE reserves1
        reserves_b == IF token_in = 0 THEN reserves1 ELSE reserves0
    IN  IF token_in \notin {0, 1} THEN Raise("ValueError")
        ELSE VolatileAmountOut(amount_in_after_fee, reserves_a, reserves_b)

----------------------------------------------------------------------------
(* SpecSolver: one call of a solver function on arguments drawn at Init *)

Pending == [kind |-> "pending", value |-> 0, iters |-> 0, dzero |-> FALSE, exhausted |-> FALSE]

NoPool == [token0 |-> [address |-> 0, decimals |-> 0],
           token1 |-> [address |-> 0, decimals |-> 0],
           stable |-> FALSE, fee |-> [numerator |-> 0, denominator |-> 1]]

NoState == [pool |-> "", reserves_token0 |-> 0, reserves_token1 |-> 0]

NoCall == [pc |-> "none"]

\* self._state_lock = Lock(): not held.
Unlocked == "unlocked"

\* The threads that call the pool's setters, and the pool's subscribers.
SetterThreads == {"t1", "t2"}
Subscribers == {"s1", "s2"}

NoSetters == [t \in SetterThreads |-> [pc |-> "idle"]]

NoNotifications == [s \in Subscribers |-> 0]

InitSolver ==
    /\ \/ /\ fn = "solidly_calc_exact_in_volatile"
          /\ args \in [amount_in : Amounts, token_in : TokenIds,
                       reserves0 : Reserves, reserves1 : Reserves, fee : Fees]
       \/ /\ fn = "solidly_calc_exact_in_stable"
          /\ args \in [amount_in : Amounts, token_in : TokenIds,
                       reserves0 : Reserves, reserves1 : Reserves,
                       decimals0 : Decimals, decimals1 : Decimals, fee : Fees]
       \/ /\ fn = "_get_y_camelot"
          /\ args \in [x_0 : Reserves, xy : XYs, y : Reserves]
    /\ ret = Pending
    /\ pool = NoPool
    /\ state = NoState
    /\ call = NoCall
    /\ _state_lock = Unlocked
    /\ setters = NoSetters
    /\ _subscribers = {}
    /\ notifications = NoNotifications
    /\ NoMore

CallVolatile ==
    /\ fn = "solidly_calc_exact_in_volatile"
    /\ ret = Pending
    /\ ret' = solidly_calc_exact_in_volatile(args.amount_in, args.token_in,
                  args.reserves0, args.reserves1, args.fee)
    /\ UNCHANGED <<moreVars, fn, args, pool, state, call, _state_lock, threadVars>>

CallStable ==
    /\ fn = "solidly_calc_exact_in_stable"
    /\ ret = Pending
    /\ ret' = solidly_calc_exact_in_stable(args.amount_in, args.token_in,
                  args.reserves0, args.reserves1, args.decimals0, args.decimals1,
                  args.fee)
    /\ UNCHANGED <<moreVars, fn, args, pool, state, call, _state_lock, threadVars>>

CallCamelot ==
    /\ fn = "_get_y_camelot"
    /\ ret = Pending
    /\ ret' = _get_y_camelot(args.x_0, args.xy, args.y)
    /\ UNCHANGED <<moreVars, fn, args, pool, state, call, _state_lock, threadVars>>

NextSolver == CallVolatile \/ CallStable \/ CallCamelot

SpecSolver == InitSolver /\ [][NextSolver]_vars

----------------------------------------------------------------------------
(* Spec: an AerodromeV2Pool, its live state and one caller of                *)
(* calculate_tokens_out_from_tokens_in; reserves setters may run (on other   *)
(* threads) between any two steps of the call.                               *)

PoolAddress == "0xPool"

\* The pool's tokens, token0 < token1 by address, with their decimals.
Token0 == [address |-> 1, decimals |-> 1]
Token1 == [address |-> 2, decimals |-> 2]

\* Addresses a caller may pass as token_in: the pool's tokens and another.
TokensIn == {Token0.address, Token1.address, 3}
PoolReserves == {0, 5, 5 * MaxReserve}
PoolAmounts == {-1, 0, 2, MaxAmount}

\* AerodromeV2PoolState(pool, reserves_token0, reserves_token1)
AerodromeV2PoolState(a, r0, r1) ==
    [pool |-> a, reserves_token0 |-> r0, reserves_token1 |-> r1]

PoolStates == {AerodromeV2PoolState(PoolAddress, r0, r1) :
                   r0 \in PoolReserves, r1 \in PoolReserves}

\* The states a caller passes as override_state.
OverrideStates ==
    {AerodromeV2PoolState(PoolAddress, 5, 5 * MaxReserve),
     AerodromeV2PoolState(PoolAddress, 5 * MaxReserve, 5),
     AerodromeV2PoolState(PoolAddress, 0, 5)}

\* override_state = None
None == [pool |-> "", reserves_token0 |-> -1, reserves_token1 |-> -1]

\* The pool once __init__ has returned: reserves as fetched from the chain.
Init ==
    /\ pool \in [token0 : {Token0}, token1 : {Token1},
                 stable : BOOLEAN, fee : Fees]
    /\ state \in PoolStates
    /\ call = NoCall
    /\ fn = "none"
    /\ args = <<>>
    /\ ret = Pending
    /\ _state_lock = Unlocked
    /\ setters = NoSetters
    /\ _subscribers = {}
    /\ notifications = NoNotifications
    /\ NoMore

\* reserves_token0.setter
SetReservesToken0 ==
    \E new_reserves \in PoolReserves :
        LET current_state == state
        IN  /\ state' = AerodromeV2PoolState(current_state.pool, new_reserves,
                                             current_state.reserves_token1)
            /\ UNCHANGED <<moreVars, fn, args, ret, pool, call, _state_lock, threadVars>>

\* reserves_token1.setter
SetReservesToken1 ==
    \E new_reserves \in PoolReserves :
        LET current_state == state
        IN  /\ state' = AerodromeV2PoolState(current_state.pool,
                                             current_state.reserves_token0, new_reserves)
            /\ UNCHANGED <<moreVars, fn, args, ret, pool, call, _state_lock, threadVars>>

\* state.setter
SetState ==
    \E new_state \in PoolStates :
        /\ state' = new_state
        /\ UNCHANGED <<moreVars, fn, args, ret, pool, call, _state_lock, threadVars>>

\* A caller enters calculate_tokens_out_from_tokens_in. live_reads,
\* override_reads and solver_calls count what the call has done so far;
\* state_0 and state_1 are the live state objects the two reserve reads went
\* to (None for a read that went to the override), lock_0 and lock_1 the value
\* of _state_lock at those reads.
StartCall ==
    /\ call.pc \in {"none", "done"}
    /\ \E token_in \in TokensIn, token_in_quantity \in PoolAmounts,
          override_state \in OverrideStates \cup {None} :
          call' = [pc |-> "check_token", token_in |-> token_in,
                   token_in_quantity |-> token_in_quantity,
                   override_state |-> override_state,
                   TOKEN_IN |-> -1, reserves_0 |-> -1, reserves_1 |-> -1,
                   live_reads |-> 0, override_reads |-> 0, solver_calls |-> 0,
                   state_0 |-> None, state_1 |-> None,
                   lock_0 |-> Unlocked, lock_1 |-> Unlocked,
                   outcome |-> Pending]
    /\ UNCHANGED <<moreVars, fn, args, ret, pool, state, _state_lock, threadVars>>

\* if token_in not in self.tokens: raise DegenbotValueError
\* TOKEN_IN = 0 if token_in == self.token0 else 1
CheckToken ==
    /\ call.pc = "check_token"
    /\ IF call.token_in \notin {pool.token0.address, pool.token1.address}
       THEN call' = [call EXCEPT !.pc = "done",
                                 !.outcome = Raise("DegenbotValueError")]
       ELSE call' = [call EXCEPT !.pc = "check_quantity",
                        !.TOKEN_IN = IF call.token_in = pool.token0.address
                                     THEN 0 ELSE 1]
    /\ UNCHANGED <<moreVars, fn, args, ret, pool, state, _state_lock, threadVars>>

\* The check with a strict bound: a zero amount passes.
CheckQuantity_allows_zero ==
    /\ call.pc = "check_quantity"
    /\ IF call.token_in_quantity < 0
       THEN call' = [call EXCEPT !.pc = "done", !.outcome = Raise("ZeroSwapError")]
       ELSE call' = [call EXCEPT !.pc = "read_reserves_0"]
    /\ UNCHANGED <<moreVars, fn, args, ret, pool, state, _state_lock, threadVars>>

\* if token_in_quantity <= 0: raise ZeroSwapError
CheckQuantity ==
    /\ call.pc = "check_quantity"
    /\ IF call.token_in_quantity <= 0
       THEN call' = [call EXCEPT !.pc = "done", !.outcome = Raise("ZeroSwapError")]
       ELSE call' = [call EXCEPT !.pc = "read_reserves_0"]
    /\ UNCHANGED <<moreVars, fn, args, ret, pool, state, _state_lock, threadVars>>

\* The override applied by storing it as the pool's state.
ReadReserves0_stores_override ==
    /\ call.pc = "read_reserves_0"
    /\ IF call.override_state # None
       THEN /\ call' = [call EXCEPT !.pc = "read_reserves_1",
                           !.reserves_0 = call.override_state.reserves_token0,
                           !.override_reads = call.override_reads + 1,
                           !.lock_0 = _state_lock]
            /\ state' = call.override_state
       ELSE /\ call' = [call EXCEPT !.pc = "read_reserves_1",
                           !.reserves_0 = state.reserves_token0,
                           !.live_reads = call.live_reads + 1,
                           !.state_0 = state, !.lock_0 = _state_lock]
            /\ state' = state
    /\ UNCHANGED <<moreVars, fn, args, ret, pool, _state_lock, threadVars>>

\* The read made under the lock: it waits while another thread holds it.
ReadReserves0_under_lock ==
    /\ call.pc = "read_reserves_0"
    /\ _state_lock = Unlocked
    /\ IF call.override_state # None
       THEN call' = [call EXCEPT !.pc = "read_reserves_1",
                        !.reserves_0 = call.override_state.reserves_token0,
                        !.override_reads = call.override_reads + 1,
                        !.lock_0 = _state_lock]
       ELSE call' = [call EXCEPT !.pc = "read_reserves_1",
                        !.reserves_0 = state.reserves_token0,
                        !.live_reads = call.live_reads + 1,
                        !.state_0 = state, !.lock_0 = _state_lock]
    /\ UNCHANGED <<moreVars, fn, args, ret, pool, state, _state_lock, threadVars>>

\* reserves_0 = override_state.reserves_token0 if override_state is not None
\*              else self.reserves_token0
ReadReserves0 ==
    /\ call.pc = "read_reserves_0"
    /\ IF call.override_state # None
       THEN call' = [call EXCEPT !.pc = "read_reserves_1",
                        !.reserves_0 = call.override_state.reserves_token0,
                        !.override_reads = call.override_reads + 1,
                        !.lock_0 = _state_lock]
       ELSE call' = [call EXCEPT !.pc = "read_reserves_1",
                        !.reserves_0 = state.reserves_token0,
                        !.live_reads = call.live_reads + 1,
                        !.state_0 = state, !.lock_0 = _state_lock]
    /\ UNCHANGED <<moreVars, fn, args, ret, pool, state, _state_lock, threadVars>>

\* The second reserve read from the live state whatever the override.
ReadReserves1_ignores_override ==
    /\ call.pc = "read_reserves_1"
    /\ call' = [call EXCEPT !.pc = "dispatch",
                   !.reserves_1 = state.reserves_token1,
                   !.live_reads = call.live_reads + 1,
                   !.state_1 = state, !.lock_1 = _state_lock]
    /\ UNCHANGED <<moreVars, fn, args, ret, pool, state, _state_lock, threadVars>>

\* reserves_1 = override_state.reserves_token1 if override_state is not None
\*              else self.reserves_token1
ReadReserves1 ==
    /\ call.pc = "read_reserves_1"
    /\ IF call.override_state # None
       THEN call' = [call EXCEPT !.pc = "dispatch",
                        !.reserves_1 = call.override_state.reserves_token1,
                        !.override_reads = call.override_reads + 1,
                        !.lock_1 = _state_lock]
       ELSE call' = [call EXCEPT !.pc = "dispatch",
                        !.reserves_1 = state.reserves_token1,
                        !.live_reads = call.live_reads + 1,
                        !.state_1 = state, !.lock_1 = _state_lock]
    /\ UNCHANGED <<moreVars, fn, args, ret, pool, state, _state_lock, threadVars>>

\* What the call computes from the reserves it has resolved:
\* calc_exact_in_stable(...) if self.stable else general_calc_exact_in_volatile(...)
PoolCalc(TOKEN_IN, token_in_quantity, reserves_0, reserves_1) ==
    IF pool.stable
    THEN solidly_calc_exact_in_stable(token_in_quantity, TOKEN_IN, reserves_0,
             reserves_1, 10^pool.token0.decimals, 10^pool.token1.decimals, pool.fee)
    ELSE solidly_calc_exact_in_volatile(token_in_quantity, TOKEN_IN, reserves_0,
             reserves_1, pool.fee)

\* if self.stable: return calc_exact_in_stable(...)
\* else: return general_calc_exact_in_volatile(...)
Dispatch ==
    /\ call.pc = "dispatch"
    /\ call' = [call EXCEPT !.pc = "done",
                   !.solver_calls = call.solver_calls + 1,
                   !.outcome = PoolCalc(call.TOKEN_IN, call.token_in_quantity,
                                        call.reserves_0, call.reserves_1)]
    /\ UNCHANGED <<moreVars, fn, args, ret, pool, state, _state_lock, threadVars>>

\* __getstate__ enters "with self._state_lock".
GetStateEnter ==
    /\ _state_lock = Unlocked
    /\ _state_lock' = "__getstate__"
    /\ UNCHANGED <<moreVars, fn, args, ret, pool, state, call, threadVars>>

\* __getstate__ returns its copy of the attributes and leaves the with block.
GetStateReturn ==
    /\ _state_lock = "__getstate__"
    /\ _state_lock' = Unlocked
    /\ UNCHANGED <<moreVars, fn, args, ret, pool, state, call, threadVars>>

Next ==
    \/ GetStateEnter
    \/ GetStateReturn
    \/ SetReservesToken0
    \/ SetReservesToken1
    \/ SetState
    \/ StartCall
    \/ CheckToken
    \/ CheckQuantity
    \/ ReadReserves0
    \/ ReadReserves1
    \/ Dispatch

Spec == Init /\ [][Next]_vars

----------------------------------------------------------------------------
(* SpecThreads: threads that call the pool's setters, one setter call each,  *)
(* statement by statement, and the subscribers of the pool.                  *)

\* The new_state values passed to the state setter.
NewStates ==
    {AerodromeV2PoolState(PoolAddress, 5, 5), AerodromeV2PoolState(PoolAddress, 0, 5)}

\* The pool once __init__ has returned, with no subscriber and no setter call.
InitThreads ==
    /\ pool \in [token0 : {Token0}, token1 : {Token1},
                 stable : {FALSE}, fee : {[numerator |-> 0, denominator |-> 1]}]
    /\ state \in PoolStates
    /\ call = NoCall
    /\ fn = "none"
    /\ args = <<>>
    /\ ret = Pending
    /\ _state_lock = Unlocked
    /\ setters = NoSetters
    /\ _subscribers = {}
    /\ notifications = NoNotifications
    /\ NoMore

\* AbstractLiquidityPool._notify_subscribers: one notify() per subscriber.
_notify_subscribers(n) ==
    [s \in Subscribers |-> IF s \in _subscribers THEN n[s] + 1 ELSE n[s]]

\* The body of state.setter: self._state = new_state.
StateSetterBody(new_state) ==
    /\ state' = new_state
    /\ notifications' = notifications

\* The reserves setters entered and their first statement run:
\* current_state = self.state.
ReservesSetterRead(t) ==
    /\ setters[t].pc = "idle"
    /\ \E prop \in {"reserves_token0", "reserves_token1"},
          new_reserves \in PoolReserves :
          setters' = [setters EXCEPT ![t] =
              [pc |-> "write", prop |-> prop, new_reserves |-> new_reserves,
               current_state |-> state]]
    /\ UNCHANGED <<moreVars, solverVars, pool, state, call, _state_lock,
                   _subscribers, notifications>>

\* The reserves setters' second statement:
\* self.state = AerodromeV2PoolState(pool=current_state.pool, ...), which runs
\* the state setter.
ReservesSetterWrite(t) ==
    /\ setters[t].pc = "write"
    /\ LET current_state == setters[t].current_state
           new_reserves == setters[t].new_reserves
       IN  StateSetterBody(
               IF setters[t].prop = "reserves_token0"
               THEN AerodromeV2PoolState(current_state.pool, new_reserves,
                                         current_state.reserves_token1)
               ELSE AerodromeV2PoolState(current_state.pool,
                                         current_state.reserves_token0, new_reserves))
    /\ setters' = [setters EXCEPT ![t] =
           [pc |-> "done", prop |-> setters[t].prop,
            new_reserves |-> setters[t].new_reserves, current_state |-> NoState]]
    /\ UNCHANGED <<moreVars, solverVars, pool, call, _state_lock, _subscribers>>

\* pool.state = new_state
StateSetter(t) ==
    /\ setters[t].pc = "idle"
    /\ \E new_state \in NewStates :
          /\ StateSetterBody(new_state)
          /\ setters' = [setters EXCEPT ![t] =
                 [pc |-> "done", prop |-> "state", new_reserves |-> 0,
                  current_state |-> NoState]]
    /\ UNCHANGED <<moreVars, solverVars, pool, call, _state_lock, _subscribers>>

\* AbstractLiquidityPool.subscribe
Subscribe(s) ==
    /\ _subscribers' = _subscribers \cup {s}
    /\ UNCHANGED <<moreVars, solverVars, pool, state, call, _state_lock, setters, notifications>>

\* AbstractLiquidityPool.unsubscribe
Unsubscribe(s) ==
    /\ _subscribers' = _subscribers \ {s}
    /\ UNCHANGED <<moreVars, solverVars, pool, state, call, _state_lock, setters, notifications>>

NextThreads ==
    \/ \E t \in SetterThreads : ReservesSetterRead(t)
    \/ \E t \in SetterThreads : ReservesSetterWrite(t)
    \/ \E t \in SetterThreads : StateSetter(t)
    \/ \E s \in Subscribers : Subscribe(s)
    \/ \E s \in Subscribers : Unsubscribe(s)

SpecThreads == InitThreads /\ [][NextThreads]_vars

----------------------------------------------------------------------------
(* SpecToken: token comparisons (types.py) and the choice of token0, token1  *)
(* in AerodromeV2Pool.__init__. A string is a sequence of character codes.   *)

\* An address is AddrBytes bytes long (20 in the program).
AddrBytes == 1

\* The hex digits addresses are made of: 0, 2, a, c.
Nibbles == {0, 2, 10, 12}

\* "0x"
Prefix0x == <<48, 120>>

\* The character of a hex digit, a letter in upper or lower case.
HexChar(n, upper) ==
    IF n < 10 THEN 48 + n ELSE IF upper THEN 55 + n ELSE 87 + n

\* The value of a hex character.
HexValue(c) ==
    IF c \in 48..57 THEN c - 48 ELSE IF c \in 97..102 THEN c - 87 ELSE c - 55

\* str.lower() and str.upper()
lower(str) ==
    [i \in 1..Len(str) |-> IF str[i] \in 65..90 THEN str[i] + 32 ELSE str[i]]

upper(str) ==
    [i \in 1..Len(str) |-> IF str[i] \in 97..122 THEN str[i] - 32 ELSE str[i]]

\* a < b on Python strings: by the first differing character code, a proper
\* prefix first.
StrLt(a, b) ==
    \E k \in 1..(Len(a) + 1) :
        /\ k <= Len(b)
        /\ \A j \in 1..(k - 1) : a[j] = b[j]
        /\ (k = Len(a) + 1 \/ a[k] < b[k])

\* bytes.fromhex(address[2:])
BytesFromHex(digits) ==
    [i \in 1..(Len(digits) \div 2) |->
        16 * HexValue(digits[2 * i - 1]) + HexValue(digits[2 * i])]

\* bytes.hex(): two lower-case digits per byte, no prefix.
BytesHex(b) ==
    [i \in 1..(2 * Len(b)) |->
        IF i % 2 = 1 THEN HexChar(b[(i + 1) \div 2] \div 16, FALSE)
        ELSE HexChar(b[i \div 2] % 16, FALSE)]

\* The number an address string "0x..." denotes.
RECURSIVE DigitsValue(_)
DigitsValue(digits) ==
    IF Len(digits) = 0 THEN 0
    ELSE 16 * DigitsValue(SubSeq(digits, 1, Len(digits) - 1))
             + HexValue(digits[Len(digits)])

AddressValue(address) == DigitsValue(SubSeq(address, 3, Len(address)))

\* Checksummed addresses: "0x" and 2 * AddrBytes hex digits, each letter in
\* the case the checksum gives it (a function of the address, any case
\* pattern occurring for some address).
ChecksumAddresses ==
    {Prefix0x \o [i \in 1..(2 * AddrBytes) |-> HexChar(n[i], u[i])] :
        n \in [1..(2 * AddrBytes) -> Nibbles],
        u \in [1..(2 * AddrBytes) -> BOOLEAN]}

\* The forms in which the other operand of a comparison gives an address.
Forms == {"token", "checksum", "lower", "upper", "bytes", "HexBytes", "int"}

\* The other operand: the address of token `other` in form f. HexBytes.hex()
\* has the "0x" prefix in hexbytes before 1.0 and none from 1.0 on.
Operand(other, f, hexbytes_0x) ==
    CASE f = "token" -> [type |-> "token", address |-> other.address]
      [] f = "checksum" -> [type |-> "str", str |-> other.address]
      [] f = "lower" -> [type |-> "str", str |-> lower(other.address)]
      [] f = "upper" -> [type |-> "str", str |-> upper(other.address)]
      [] f = "bytes" ->
            [type |-> "bytes",
             hex |-> BytesHex(BytesFromHex(SubSeq(other.address, 3, Len(other.address))))]
      [] f = "HexBytes" ->
            [type |-> "bytes",
             hex |-> (IF hexbytes_0x THEN Prefix0x ELSE << >>)
                        \o BytesHex(BytesFromHex(SubSeq(other.address, 3,
                                                        Len(other.address))))]
      [] OTHER -> [type |-> "int"]

Returned(v) == [kind |-> "ok", value |-> v]

\* AbstractErc20Token.__eq__; NotImplemented makes == evaluate to False.
TokenEq(self, other) ==
    CASE other.type = "token" -> Returned(self.address = other.address)
      [] other.type = "bytes" -> Returned(lower(self.address) = lower(other.hex))
      [] other.type = "str" -> Returned(lower(self.address) = lower(other.str))
      [] OTHER -> Returned(FALSE)

\* AbstractErc20Token.__lt__; NotImplemented makes < raise TypeError.
TokenLt(self, other) ==
    CASE other.type = "token" -> Returned(StrLt(self.address, other.address))
      [] other.type = "bytes" -> Returned(StrLt(lower(self.address), lower(other.hex)))
      [] other.type = "str" -> Returned(StrLt(lower(self.address), lower(other.str)))
      [] OTHER -> [kind |-> "TypeError", value |-> FALSE]

\* AbstractErc20Token.__gt__; NotImplemented makes > raise TypeError.
TokenGt(self, other) ==
    CASE other.type = "token" -> Returned(StrLt(other.address, self.address))
      [] other.type = "bytes" -> Returned(StrLt(lower(other.hex), lower(self.address)))
      [] other.type = "str" -> Returned(StrLt(lower(other.str), lower(self.address)))
      [] OTHER -> [kind |-> "TypeError", value |-> FALSE]

\* sorted(tokens) on a list of two tokens: the second goes first when it is <
\* the first.
SortedTokens(tokens) ==
    IF TokenLt(tokens[2], [type |-> "token", address |-> tokens[1].address]).value
    THEN <<tokens[2], tokens[1]>> ELSE tokens

\* self.token0, self.token1 = sorted(tokens) if tokens is not None
\*                            else (get_token0(), get_token1())
InitTokens(tokens, chain) ==
    LET pair == IF tokens # << >> THEN SortedTokens(tokens) ELSE chain
    IN  [kind |-> "ok", token0 |-> pair[1], token1 |-> pair[2]]

Tokens == [address : ChecksumAddresses]

\* Two tokens: the same digits have the same checksum.
TokenPairs ==
    {p \in Tokens \X Tokens :
        lower(p[1].address) = lower(p[2].address) => p[1] = p[2]}

InitToken ==
    /\ \/ /\ fn \in {"__eq__", "__lt__", "__gt__"}
          /\ \E p \in TokenPairs, f \in Forms, h \in BOOLEAN :
                args = [self |-> p[1], other |-> p[2], form |-> f, hexbytes_0x |-> h]
       \/ /\ fn = "__init__"
          \* the pool's tokens as the chain holds them (token0 below token1
          \* in value), and the tokens argument: None, or the two in any order
          /\ \E p \in TokenPairs :
                /\ AddressValue(p[1].address) < AddressValue(p[2].address)
                /\ \E tokens \in {<< >>, <<p[1], p[2]>>, <<p[2], p[1]>>} :
                      args = [chain |-> <<p[1], p[2]>>, tokens |-> tokens]
    /\ ret = Pending
    /\ pool = NoPool
    /\ state = NoState
    /\ call = NoCall
    /\ _state_lock = Unlocked
    /\ setters = NoSetters
    /\ _subscribers = {}
    /\ notifications = NoNotifications
    /\ NoMore

CallEq ==
    /\ fn = "__eq__" /\ ret.kind = "pending"
    /\ ret' = TokenEq(args.self, Operand(args.other, args.form, args.hexbytes_0x))
    /\ UNCHANGED <<moreVars, fn, args, pool, state, call, _state_lock, threadVars>>

CallLt ==
    /\ fn = "__lt__" /\ ret.kind = "pending"
    /\ ret' = TokenLt(args.self, Operand(args.other, args.form, args.hexbytes_0x))
    /\ UNCHANGED <<moreVars, fn, args, pool, state, call, _state_lock, threadVars>>

CallGt ==
    /\ fn = "__gt__" /\ ret.kind = "pending"
    /\ ret' = TokenGt(args.self, Operand(args.other, args.form, args.hexbytes_0x))
    /\ UNCHANGED <<moreVars, fn, args, pool, state, call, _state_lock, threadVars>>

CallInit ==
    /\ fn = "__init__" /\ ret.kind = "pending"
    /\ ret' = InitTokens(args.tokens, args.chain)
    /\ UNCHANGED <<moreVars, fn, args, pool, state, call, _state_lock, threadVars>>

NextToken == CallEq \/ CallLt \/ CallGt \/ CallInit

SpecToken == InitToken /\ [][NextToken]_vars

----------------------------------------------------------------------------
(* SpecMath: the integer helpers evm_divide (functions.py) and               *)
(* div_rounding_up (unsafe_math.py), one call on arguments drawn at Init.    *)

MaxDividend == 9
MaxDivisor == 4

Dividends == (-MaxDividend)..MaxDividend
Divisors == (-MaxDivisor)..MaxDivisor

\* Python's x % y on integers (the sign of the divisor), y # 0.
PyMod(x, y) == x - y * FloorDiv(x, y)

\* -(-numerator // denominator) if numerator < 0 else numerator // denominator
evm_divide(numerator, denominator) ==
    IF denominator = 0 THEN Raise("ZeroDivisionError")
    ELSE IF numerator < 0 THEN Ok(-FloorDiv(-numerator, denominator))
    ELSE Ok(FloorDiv(numerator, denominator))

\* The floored quotient, the remainder dropped.
div_rounding_up_floored(x, y) ==
    Ok(IF y = 0 THEN 0 ELSE FloorDiv(x, y))

\* (0 if y == 0 else x // y) + ((0 if y == 0 else x % y) > 0)
div_rounding_up(x, y) ==
    Ok((IF y = 0 THEN 0 ELSE FloorDiv(x, y))
           + (IF (IF y = 0 THEN 0 ELSE PyMod(x, y)) > 0 THEN 1 ELSE 0))

InitMath ==
    /\ \/ /\ fn = "evm_divide"
          /\ args \in [numerator : Dividends, denominator : Divisors]
       \/ /\ fn = "div_rounding_up"
          /\ args \in [x : Dividends, y : Divisors]
    /\ ret = Pending
    /\ pool = NoPool
    /\ state = NoState
    /\ call = NoCall
    /\ _state_lock = Unlocked
    /\ setters = NoSetters
    /\ _subscribers = {}
    /\ notifications = NoNotifications
    /\ NoMore

CallEvmDivide ==
    /\ fn = "evm_divide" /\ ret = Pending
    /\ ret' = evm_divide(args.numerator, args.denominator)
    /\ UNCHANGED <<moreVars, fn, args, pool, state, call, _state_lock, threadVars>>

CallDivRoundingUp ==
    /\ fn = "div_rounding_up" /\ ret = Pending
    /\ ret' = div_rounding_up(args.x, args.y)
    /\ UNCHANGED <<moreVars, fn, args, pool, state, call, _state_lock, threadVars>>

NextMath == CallEvmDivide \/ CallDivRoundingUp

SpecMath == InitMath /\ [][NextMath]_vars

----------------------------------------------------------------------------
(* SpecV3State: UniswapV3PoolState objects (uniswap/types.py).  The state    *)
(* dataclass is frozen; its tick_bitmap and tick_data fields hold references *)
(* to dict objects, whose values are references to UniswapV3BitmapAtWord and *)
(* UniswapV3LiquidityAtTick objects (dataclasses that are not frozen).       *)
(* Objects are identified by their index in dicts, entries and snapshots.    *)

MaxSnapshots == 3
MaxEntries == 3
MaxKey == 1

\* No pool, no call, no thread: the variables of the other specifications.
NoCore ==
    /\ fn = "none"
    /\ args = <<>>
    /\ ret = Pending
    /\ pool = NoPool
    /\ state = NoState
    /\ call = NoCall
    /\ _state_lock = Unlocked
    /\ setters = NoSetters
    /\ _subscribers = {}
    /\ notifications = NoNotifications

\* tick_bitmap / tick_data is None: no dict object (dict objects count from 1).
NoDict == 0

DictFields == {"tick_bitmap", "tick_data"}
DictKeys == 0..MaxKey
EntryValues == {0, 1}

\* UniswapV3BitmapAtWord(bitmap) / UniswapV3LiquidityAtTick(liquidityNet, liquidityGross)
UniswapV3BitmapAtWord(bitmap) == [bitmap |-> bitmap]
UniswapV3LiquidityAtTick(liquidityNet, liquidityGross) ==
    [liquidityNet |-> liquidityNet, liquidityGross |-> liquidityGross]

EntryFields(f) ==
    IF f = "tick_bitmap" THEN {"bitmap"} ELSE {"liquidityNet", "liquidityGross"}

NewEntry(f, v) ==
    IF f = "tick_bitmap" THEN UniswapV3BitmapAtWord(v)
    ELSE UniswapV3LiquidityAtTick(v, v)

\* The dataclass constructor: the fields are stored as given, the dicts by
\* reference.
UniswapV3PoolState(liquidity, sqrt_price_x96, tick, tick_bitmap, tick_data) ==
    [liquidity |-> liquidity, sqrt_price_x96 |-> sqrt_price_x96, tick |-> tick,
     tick_bitmap |-> tick_bitmap, tick_data |-> tick_data]

\* What a reader sees through a state object: its scalars, and for each dict
\* the bitmap word / liquidity values found under each key.
Seen(d) ==
    IF d = NoDict THEN [is_none |-> TRUE, items |-> <<>>]
    ELSE [is_none |-> FALSE,
          items |-> [k \in DOMAIN dicts[d] |-> entries[dicts[d][k]]]]

View(s) ==
    [liquidity |-> snapshots[s].liquidity,
     sqrt_price_x96 |-> snapshots[s].sqrt_price_x96,
     tick |-> snapshots[s].tick,
     tick_bitmap |-> Seen(snapshots[s].tick_bitmap),
     tick_data |-> Seen(snapshots[s].tick_data)]

\* One state has been constructed, with or without tick dicts (one entry
\* under key 0 in each).
InitV3 ==
    /\ NoCore
    /\ NoFetch /\ NoSubs /\ NoLedger /\ NoAnvil
    /\ \E liquidity \in EntryValues, with_ticks \in BOOLEAN :
          IF with_ticks
          THEN /\ entries = <<UniswapV3BitmapAtWord(1), UniswapV3LiquidityAtTick(1, 1)>>
               /\ dicts = <<(0 :> 1), (0 :> 2)>>
               /\ snapshots = <<UniswapV3PoolState(liquidity, 1, 0, 1, 2)>>
          ELSE /\ entries = <<>>
               /\ dicts = <<>>
               /\ snapshots = <<UniswapV3PoolState(liquidity, 1, 0, NoDict, NoDict)>>
    /\ op = [name |-> "__init__", target |-> 1]

\* copy(): a new state object; each dict is copied with dict.copy(), a new
\* dict object holding the same entry objects.
Copy(s) ==
    /\ Len(snapshots) < MaxSnapshots
    /\ LET self == snapshots[s]
           bitmap_copy == IF self.tick_bitmap # NoDict THEN <<dicts[self.tick_bitmap]>> ELSE <<>>
           data_copy == IF self.tick_data # NoDict THEN <<dicts[self.tick_data]>> ELSE <<>>
       IN  /\ dicts' = dicts \o bitmap_copy \o data_copy
           /\ snapshots' = Append(snapshots,
                  UniswapV3PoolState(
                      self.liquidity, self.sqrt_price_x96, self.tick,
                      IF self.tick_bitmap # NoDict THEN Len(dicts) + 1 ELSE NoDict,
                      IF self.tick_data # NoDict
                          THEN Len(dicts) + Len(bitmap_copy) + 1 ELSE NoDict))
    /\ op' = [name |-> "copy", target |-> s]
    /\ UNCHANGED <<notV3, entries>>

\* UniswapV3PoolState(..., tick_bitmap=s.tick_bitmap, tick_data=s.tick_data):
\* a new state built from the fields of s with another liquidity; the
\* constructor keeps the dicts it is given.
Construct(s, liquidity) ==
    /\ Len(snapshots) < MaxSnapshots
    /\ snapshots' = Append(snapshots,
           UniswapV3PoolState(liquidity, snapshots[s].sqrt_price_x96,
               snapshots[s].tick, snapshots[s].tick_bitmap, snapshots[s].tick_data))
    /\ op' = [name |-> "__init__", target |-> Len(snapshots) + 1]
    /\ UNCHANGED <<notV3, dicts, entries>>

\* s.liquidity = v: the dataclass is frozen, the assignment raises.
SetAttr(s) ==
    /\ op.name # "__setattr__"
    /\ op' = [name |-> "__setattr__", target |-> s,
              raised |-> "FrozenInstanceError"]
    /\ UNCHANGED <<notV3, dicts, entries, snapshots>>

\* s.tick_bitmap[k] = UniswapV3BitmapAtWord(v), s.tick_data[k] = ...: item
\* assignment on the dict reached through s.
SetItem(s, f, k, v) ==
    /\ snapshots[s][f] # NoDict
    /\ Len(entries) < MaxEntries
    /\ entries' = Append(entries, NewEntry(f, v))
    /\ dicts' = [dicts EXCEPT ![snapshots[s][f]] =
                     [j \in DOMAIN @ \cup {k} |->
                         IF j = k THEN Len(entries) + 1 ELSE @[j]]]
    /\ op' = [name |-> "__setitem__", target |-> s]
    /\ UNCHANGED <<notV3, snapshots>>

\* s.tick_bitmap[k].bitmap = v, s.tick_data[k].liquidityNet = v: attribute
\* assignment on the entry object reached through s.
SetEntryField(s, f, k, a, v) ==
    /\ snapshots[s][f] # NoDict
    /\ k \in DOMAIN dicts[snapshots[s][f]]
    /\ a \in EntryFields(f)
    /\ entries[dicts[snapshots[s][f]][k]][a] # v
    /\ entries' = [entries EXCEPT ![dicts[snapshots[s][f]][k]][a] = v]
    /\ op' = [name |-> "entry.__setattr__", target |-> s]
    /\ UNCHANGED <<notV3, dicts, snapshots>>

NextV3 ==
    \/ \E s \in DOMAIN snapshots : Copy(s)
    \/ \E s \in DOMAIN snapshots, liquidity \in EntryValues :
           Construct(s, liquidity)
    \/ \E s \in DOMAIN snapshots : SetAttr(s)
    \/ \E s \in DOMAIN snapshots, f \in DictFields, k \in DictKeys,
          v \in EntryValues : SetItem(s, f, k, v)
    \/ \E s \in DOMAIN snapshots, f \in DictFields, k \in DictKeys,
          v \in EntryValues, a \in {"bitmap", "liquidityNet", "liquidityGross"} :
           SetEntryField(s, f, k, a, v)

SpecV3State == InitV3 /\ [][NextV3]_vars

----------------------------------------------------------------------------
(* SpecFetch: one call of fetch_logs_retrying (functions.py).  Each action   *)
(* is one pass of the tenacity attempt loop: the chunk end is computed, the  *)
(* node answers the get_logs request or raises, the working span is          *)
(* adjusted, and the retry controller either yields another attempt, ends    *)
(* the loop, or raises RetryError.                                           *)

MaxBlock == 4
MaxRetries == 2
MaxSpanArg == 3

\* max_blocks_per_request = 5_000 when None is passed.
DefaultMaxBlocks == 5000

BlockNumbers == 0..MaxBlock

\* max_blocks_per_request: None (the empty tuple) or a number of blocks.
MaxBlocksArgs == {<<>>} \cup {<<n>> : n \in 1..MaxSpanArg}

\* retry_if_exception_type((Timeout, Web3RPCError))
RetryableErrors == {"Timeout", "Web3RPCError"}

\* Any other exception the request can raise.
OtherErrors == {"ValueError"}

min(a, b) == IF a <= b THEN a ELSE b
max(a, b) == IF a >= b THEN a ELSE b

\* The chain: the logs of one block, in order (odd blocks hold two logs).
LogsInBlock(b) ==
    [i \in 1..((b % 2) + 1) |-> [blockNumber |-> b, logIndex |-> i]]

\* w3.eth.get_logs(fromBlock, toBlock): the logs of the blocks of the range,
\* both ends included, in chain order.
RECURSIVE get_logs(_, _)
get_logs(fromBlock, toBlock) ==
    IF fromBlock > toBlock THEN <<>>
    ELSE LogsInBlock(fromBlock) \o get_logs(fromBlock + 1, toBlock)

InitFetch ==
    /\ fn = "fetch_logs_retrying"
    /\ args \in [start_block : BlockNumbers, end_block : BlockNumbers,
                 max_retries : 1..MaxRetries,
                 max_blocks_per_request : MaxBlocksArgs]
    /\ LET max_blocks_per_request ==
               IF args.max_blocks_per_request = <<>> THEN DefaultMaxBlocks
               ELSE args.max_blocks_per_request[1]
       IN  fetch = [pc |-> "attempt",
                    start_block |-> args.start_block,
                    max_blocks_per_request |-> max_blocks_per_request,
                    working_span |-> max_blocks_per_request,
                    event_logs |-> <<>>,
                    attempt_number |-> 1]
    /\ get_logs_calls = <<>>
    /\ ret = Pending
    /\ pool = NoPool
    /\ state = NoState
    /\ call = NoCall
    /\ _state_lock = Unlocked
    /\ setters = NoSetters
    /\ _subscribers = {}
    /\ notifications = NoNotifications
    /\ NoV3 /\ NoSubs /\ NoLedger /\ NoAnvil

\* The chunk end, one block too far.
chunk_end_exclusive ==
    min(args.end_block, fetch.start_block + fetch.working_span)

\* chunk_end = min(end_block, start_block + working_span - 1)
chunk_end == min(args.end_block, fetch.start_block + fetch.working_span - 1)

\* The next chunk starting on the last block fetched.
next_start_block_overlapping == chunk_end

\* start_block = chunk_end + 1
next_start_block == chunk_end + 1

\* The controller stopping one attempt late.
stop_after_attempt_late == fetch.attempt_number > args.max_retries

\* tenacity.stop_after_attempt(max_retries)
stop_after_attempt == fetch.attempt_number >= args.max_retries

Request(outcome) ==
    [fromBlock |-> fetch.start_block, toBlock |-> chunk_end, outcome |-> outcome]

\* The request succeeds: the logs are appended, the span grows by a tenth up
\* to the cap, the attempt loop ends; the call returns at the last chunk and
\* otherwise moves to the next chunk with a new retry controller.
AttemptSucceeds ==
    /\ fetch.pc = "attempt"
    /\ get_logs_calls' = Append(get_logs_calls, Request("ok"))
    /\ LET event_logs == fetch.event_logs \o get_logs(fetch.start_block, chunk_end)
           working_span == min(fetch.working_span + fetch.working_span \div 10,
                               fetch.max_blocks_per_request)
       IN  IF chunk_end = args.end_block
           THEN /\ fetch' = [fetch EXCEPT !.pc = "done",
                                          !.event_logs = event_logs,
                                          !.working_span = working_span]
                /\ ret' = Ok(event_logs)
           ELSE /\ fetch' = [fetch EXCEPT !.start_block = next_start_block,
                                          !.event_logs = event_logs,
                                          !.working_span = working_span,
                                          !.attempt_number = 1]
                /\ ret' = ret
    /\ UNCHANGED <<fn, args, notFetch>>

\* The request raises Timeout or Web3RPCError: the span is halved (at least
\* 1) and the exception is re-raised into the attempt; after max_retries
\* attempts the controller raises RetryError, turned into DegenbotError.
AttemptFails(e) ==
    /\ fetch.pc = "attempt"
    /\ get_logs_calls' = Append(get_logs_calls, Request(e))
    /\ LET working_span == max(1, fetch.working_span \div 2)
       IN  IF stop_after_attempt
           THEN /\ fetch' = [fetch EXCEPT !.pc = "done",
                                          !.working_span = working_span]
                /\ ret' = Raise("DegenbotError")
           ELSE /\ fetch' = [fetch EXCEPT !.working_span = working_span,
                                          !.attempt_number = @ + 1]
                /\ ret' = ret
    /\ UNCHANGED <<fn, args, notFetch>>

\* The request raises another exception: it is not caught by the inner
\* handler or retried, and leaves the call.
AttemptRaises(e) ==
    /\ fetch.pc = "attempt"
    /\ get_logs_calls' = Append(get_logs_calls, Request(e))
    /\ fetch' = [fetch EXCEPT !.pc = "done"]
    /\ ret' = Raise(e)
    /\ UNCHANGED <<fn, args, notFetch>>

NextFetch ==
    \/ AttemptSucceeds
    \/ \E e \in RetryableErrors : AttemptFails(e)
    \/ \E e \in OtherErrors : AttemptRaises(e)

SpecFetch == InitFetch /\ [][NextFetch]_vars

\* The call is single-threaded and the node answers every request: some
\* attempt step is always taken while the call is running.
SpecFetchLive == SpecFetch /\ WF_vars(NextFetch)

----------------------------------------------------------------------------
(* SpecSubscribers: the publisher side of a pool (types.py:                  *)
(* _notify_subscribers, subscribe, unsubscribe) with FakeSubscriber objects  *)
(* (tests/conftest.py) as subscribers.  Calls are made one after another.    *)

MaxPublished == 2

Messages == {"m1", "m2"}

\* _subscribers.discard(subscriber) leaving the subscriber in the set.
discard_keeps(subscribers, subscriber) == subscribers

\* self._subscribers.add(subscriber)
add(subscribers, subscriber) == subscribers \cup {subscriber}

\* self._subscribers.discard(subscriber)
discard(subscribers, subscriber) == subscribers \ {subscriber}

\* The latest call of a subscriber, and whether the call before it was of the
\* same kind.
Call(name, s) == [name |-> name, repeated |-> latest[s].name = name]

InitSubscribers ==
    /\ fn = "none"
    /\ args = <<>>
    /\ ret = Pending
    /\ pool = NoPool
    /\ state = NoState
    /\ call = NoCall
    /\ _state_lock = Unlocked
    /\ setters = NoSetters
    /\ notifications = NoNotifications
    /\ _subscribers = {}
    /\ inbox = [s \in Subscribers |-> <<>>]
    /\ latest = [s \in Subscribers |-> [name |-> "none", repeated |-> FALSE]]
    /\ published = <<>>
    /\ NoV3 /\ NoFetch /\ NoLedger /\ NoAnvil

\* FakeSubscriber.subscribe(publisher): publisher.subscribe(self)
SubscriberSubscribes(s) ==
    /\ _subscribers' = add(_subscribers, s)
    /\ latest' = [latest EXCEPT ![s] = Call("subscribe", s)]
    /\ UNCHANGED <<notSubs, inbox, published>>

\* FakeSubscriber.unsubscribe(publisher): publisher.unsubscribe(self)
SubscriberUnsubscribes(s) ==
    /\ _subscribers' = discard(_subscribers, s)
    /\ latest' = [latest EXCEPT ![s] = Call("unsubscribe", s)]
    /\ UNCHANGED <<notSubs, inbox, published>>

\* publisher._notify_subscribers(message): subscriber.notify(self, message)
\* for each member of the set; FakeSubscriber.notify appends to its inbox.
NotifySubscribers(message) ==
    /\ Len(published) < MaxPublished
    /\ inbox' = [s \in Subscribers |->
                    IF s \in _subscribers
                    THEN Append(inbox[s], [from |-> PoolAddress, message |-> message])
                    ELSE inbox[s]]
    /\ published' = Append(published, [message |-> message, latest |-> latest])
    /\ UNCHANGED <<notSubs, _subscribers, latest>>

NextSubscribers ==
    \/ \E s \in Subscribers : SubscriberSubscribes(s)
    \/ \E s \in Subscribers : SubscriberUnsubscribes(s)
    \/ \E message \in Messages : NotifySubscribers(message)

SpecSubscribers == InitSubscribers /\ [][NextSubscribers]_vars

----------------------------------------------------------------------------
(* SpecLedger: the balance ledger of a UniswapTransaction                    *)
(* (transaction/uniswap_transaction.py), changed by _adjust_balance only.    *)

MaxAdjustments == 3
MaxAdjustment == 2

AdjustmentAmounts == (-MaxAdjustment)..MaxAdjustment

\* The checksummed addresses of two tokens: "0xC0" and "0xaE".
LedgerTokens ==
    {Prefix0x \o <<HexChar(12, TRUE), HexChar(0, FALSE)>>,
     Prefix0x \o <<HexChar(10, FALSE), HexChar(14, TRUE)>>}

\* The spellings in which a caller gives a token address: checksummed or all
\* lower case.
TokenSpellings == LedgerTokens \cup {lower(t) : t \in LedgerTokens}

\* The address left as the caller spelled it.
toChecksumAddress_as_given(token) == token

\* Web3.toChecksumAddress(token): the checksummed spelling of the address,
\* whatever the case of the letters given.
toChecksumAddress(token) ==
    CHOOSE t \in LedgerTokens : lower(t) = lower(token)

InitLedger ==
    /\ NoCore
    /\ balance = <<>>
    /\ adjustments = <<>>
    /\ NoV3 /\ NoFetch /\ NoSubs /\ NoAnvil

\* _adjust_balance(token, amount): the entry is created at 0 when missing,
\* the amount is added, and an entry that reaches 0 is deleted.
_adjust_balance(token, amount) ==
    /\ Len(adjustments) < MaxAdjustments
    /\ LET _token == toChecksumAddress(token)
           created == IF _token \in DOMAIN balance THEN balance
                      ELSE [k \in DOMAIN balance \cup {_token} |->
                               IF k = _token THEN 0 ELSE balance[k]]
           added == [created EXCEPT ![_token] = @ + amount]
       IN  balance' = IF added[_token] = 0
                      THEN [k \in DOMAIN added \ {_token} |-> added[k]]
                      ELSE added
    /\ adjustments' = Append(adjustments, [token |-> token, amount |-> amount])
    /\ UNCHANGED notLedger

NextLedger ==
    \E token \in TokenSpellings, amount \in AdjustmentAmounts :
        _adjust_balance(token, amount)

SpecLedger == InitLedger /\ [][NextLedger]_vars

----------------------------------------------------------------------------
(* SpecAnvil: the command line an AnvilFork keeps (anvil_fork.py): built by  *)
(* __init__ and rewritten by reset.  A command is a list of option strings;  *)
(* an option string is modelled as the sequence of its parts, <<name>> or    *)
(* <<name, "=", value>>, and `needle in option` as the needle being one of   *)
(* the parts (no name or value drawn here contains a needle as a fragment).  *)
(* An optional argument is the empty tuple for None and <<v>> for a value.   *)

MaxResets == 2
MaxForkBlock == 1

ForkUrls == {"http://u1", "http://u2"}
ForkBlocks == 0..MaxForkBlock
TransactionHashes == {"0xh1", "0xh2"}

Optional(S) == {<<>>} \cup {<<v>> : v \in S}

\* f"--name={value}"
Option(name, value) == <<name, "=", value>>

\* needle in option
In(needle, option) == \E i \in 1..Len(option) : option[i] = needle

\* build_anvil_command: the fixed options, then the optional ones in the
\* order of the if statements, then anvil_opts, then the mining options.
build_anvil_command(a) ==
    << <<"/usr/bin/anvil">>, <<"--silent">>, <<"--auto-impersonate">>,
       <<"--no-rate-limit">>,
       Option("--fork-url", a.fork_url),
       Option("--hardfork", "latest"),
       Option("--port", "8545"),
       Option("--ipc", "/tmp/anvil.ipc"),
       Option("--mnemonic", "patient rude simple dog") >>
    \o (IF a.fork_block # <<>> /\ a.fork_block # <<0>>
        THEN <<Option("--fork-block-number", ToString(a.fork_block[1]))>> ELSE <<>>)
    \o (IF a.fork_transaction_hash # <<>>
        THEN <<Option("--fork-transaction-hash", a.fork_transaction_hash[1])>> ELSE <<>>)
    \o (IF a.chain_id # <<>> /\ a.chain_id # <<0>>
        THEN <<Option("--chain-id", ToString(a.chain_id[1]))>> ELSE <<>>)
    \o a.anvil_opts
    \o (IF a.mining_mode = "none" THEN << <<"--no-mining">>, Option("--order", "fifo") >>
        ELSE <<>>)

InitAnvil ==
    /\ fn = "AnvilFork"
    /\ args \in [fork_url : {"http://u1"},
                 fork_block : Optional(ForkBlocks),
                 fork_transaction_hash : Optional({"0xh1"}),
                 chain_id : Optional({1}),
                 anvil_opts : {<<>>, << Option("--fork-chain-id", "1"),
                                        <<"--steps-tracing">> >>},
                 mining_mode : {"auto", "none"}]
    /\ _anvil_command = build_anvil_command(args)
    /\ _fork_url = args.fork_url
    /\ resets = <<>>
    /\ ret = Pending
    /\ pool = NoPool
    /\ state = NoState
    /\ call = NoCall
    /\ _state_lock = Unlocked
    /\ setters = NoSetters
    /\ _subscribers = {}
    /\ notifications = NoNotifications
    /\ NoV3 /\ NoFetch /\ NoSubs /\ NoLedger

\* The command with the fork URL and block options stripped, the hash option
\* left in.
Sanitized_keeps_hash(command) ==
    SelectSeq(command, LAMBDA option :
        /\ ~In("--fork-url", option)
        /\ ~In("--fork-block-number", option))

\* The command with the options that may conflict stripped.
Sanitized(command) ==
    SelectSeq(command, LAMBDA option :
        /\ ~In("--fork-url", option)
        /\ ~In("--fork-block-number", option)
        /\ ~In("--fork-transaction-hash", option))

\* reset(fork_url, block_number, transaction_hash)
reset(fork_url, block_number, transaction_hash) ==
    /\ Len(resets) < MaxResets
    /\ LET block == IF block_number # <<>> /\ transaction_hash # <<>>
                    THEN <<>> ELSE block_number
           url == IF fork_url # <<>> THEN fork_url[1] ELSE _fork_url
       IN  /\ _fork_url' = url
           /\ _anvil_command' =
                  Sanitized(_anvil_command)
                  \o <<Option("--fork-url", url)>>
                  \o (IF block # <<>>
                      THEN <<Option("--fork-block-number", ToString(block[1]))>>
                      ELSE <<>>)
                  \o (IF transaction_hash # <<>>
                      THEN <<Option("--fork-transaction-hash", transaction_hash[1])>>
                      ELSE <<>>)
    /\ resets' = Append(resets, [fork_url |-> fork_url,
                                 block_number |-> block_number,
                                 transaction_hash |-> transaction_hash])
    /\ UNCHANGED <<fn, args, notAnvil>>

NextAnvil ==
    \E fork_url \in Optional(ForkUrls), block_number \in Optional(ForkBlocks),
       transaction_hash \in Optional(TransactionHashes) :
        reset(fork_url, block_number, transaction_hash)

SpecAnvil == InitAnvil /\ [][NextAnvil]_vars

----------------------------------------------------------------------------
(* Properties of the solver functions (SpecSolver) *)

\* q is the floor of n / d (d # 0), stated by multiplication.
IsFloor(q, n, d) ==
    IF d > 0 THEN q * d <= n /\ n < (q + 1) * d
    ELSE q * d >= n /\ n > (q + 1) * d

VolatileDone == fn = "solidly_calc_exact_in_volatile" /\ ret # Pending

StableDone == fn = "solidly_calc_exact_in_stable" /\ ret # Pending

CamelotDone == fn = "_get_y_camelot" /\ ret # Pending

ReserveIn == IF args.token_in = 0 THEN args.reserves0 ELSE args.reserves1

ReserveOut == IF args.token_in = 0 THEN args.reserves1 ELSE args.reserves0

\* floor(amount_in * num / den), found by search.
FeeAmount ==
    CHOOSE q \in (-(MaxAmount + 1))..(MaxAmount + 1) :
        IsFloor(q, args.amount_in * args.fee.numerator, args.fee.denominator)

\* C1: for token_in in {0,1}, solidly_calc_exact_in_volatile returns exactly
\* floor(a' * reserve_out / (reserve_in + a')) with
\* a' = amount_in - floor(amount_in * num / den), wherever that quotient is
\* defined (reserve_in + a' # 0).
C1_VolatileIsFloor ==
    (VolatileDone /\ args.token_in \in {0, 1}) =>
        LET a1 == args.amount_in - FeeAmount
        IN  ReserveIn + a1 # 0 =>
                /\ IsOk(ret)
                /\ IsFloor(ret.value, a1 * ReserveOut, ReserveIn + a1)

\* A call with token_in = 1, a fee that takes a unit, and an inexact quotient.
C1_Witness ==
    /\ VolatileDone /\ IsOk(ret)
    /\ args.token_in = 1 /\ args.reserves0 # args.reserves1
    /\ args.amount_in = 5 /\ args.fee.numerator = 1
    /\ ret.value > 0
    /\ ret.value * (ReserveIn + 4) # 4 * ReserveOut

\* C3 as stated: the volatile solver fails with ZeroSwapError whenever
\* amount_in <= 0.
C3_Original ==
    (VolatileDone /\ args.amount_in <= 0) => ret.kind = "ZeroSwapError"

\* C3 amended: solidly_calc_exact_in_volatile makes no amount check. For
\* amount_in <= 0 and token_in in {0,1} it never fails with ZeroSwapError: it
\* returns an amount (0 when amount_in = 0 and reserve_in > 0), or raises
\* ZeroDivisionError exactly when reserve_in + amount_in_after_fee = 0.
C3_VolatileSolverHasNoAmountCheck ==
    (VolatileDone /\ args.amount_in <= 0 /\ args.token_in \in {0, 1}) =>
        /\ ret.kind \in {"ok", "ZeroDivisionError"}
        /\ (ret.kind = "ZeroDivisionError") <=>
               (ReserveIn + (args.amount_in - FeeAmount) = 0)
        /\ (args.amount_in = 0 /\ ReserveIn > 0) => ret = Ok(0)

\* A call with amount_in < 0 that returns a non-zero amount.
C3_Witness ==
    /\ VolatileDone /\ args.amount_in < 0 /\ args.token_in \in {0, 1}
    /\ IsOk(ret) /\ ret.value # 0

\* The exact-in output at another amount, the other arguments as in the call.
VolatileAt(a) ==
    solidly_calc_exact_in_volatile(a, args.token_in, args.reserves0,
                                   args.reserves1, args.fee)

\* The output is below reserve_out, and no larger amount_in gives less.
VolatileBoundedAndMonotone ==
    /\ IsOk(ret)
    /\ ret.value < ReserveOut
    /\ \A a2 \in Amounts :
           a2 >= args.amount_in =>
               IsOk(VolatileAt(a2)) /\ VolatileAt(a2).value >= ret.value

\* C4 as stated: for all reserves >= 0 and fee in [0,1) the constant-product
\* output is non-decreasing in amount_in and strictly less than reserve_out
\* for every positive amount_in.
C4_Original ==
    (VolatileDone /\ args.token_in \in {0, 1} /\ args.amount_in > 0
        /\ args.reserves0 >= 0 /\ args.reserves1 >= 0)
    => VolatileBoundedAndMonotone

\* C4 amended: for reserves both > 0, fee in [0,1) and positive amounts, the
\* constant-product output is non-decreasing in amount_in and strictly less
\* than reserve_out.
C4_MonotoneBelowReserveOut ==
    (VolatileDone /\ args.token_in \in {0, 1} /\ args.amount_in > 0
        /\ args.reserves0 > 0 /\ args.reserves1 > 0)
    => VolatileBoundedAndMonotone

\* A positive output below reserve_out that a larger amount strictly exceeds.
C4_Witness ==
    /\ VolatileDone /\ args.token_in \in {0, 1} /\ args.amount_in > 0
    /\ args.reserves0 > 0 /\ args.reserves1 > 0
    /\ IsOk(ret) /\ ret.value > 0
    /\ \E a2 \in Amounts : a2 > args.amount_in /\ VolatileAt(a2).value > ret.value

\* k before the swap, as _k_aerodrome computes it on the native reserves.
KPre ==
    _k_aerodrome(args.reserves0, args.reserves1, args.decimals0, args.decimals1)

\* k after a swap that pays out `out`: amount_in added to the input reserve,
\* out taken from the output reserve.
KPost(out) ==
    IF args.token_in = 0
    THEN _k_aerodrome(args.reserves0 + args.amount_in, args.reserves1 - out,
                      args.decimals0, args.decimals1)
    ELSE _k_aerodrome(args.reserves0 - out, args.reserves1 + args.amount_in,
                      args.decimals0, args.decimals1)

StableAccepted ==
    /\ StableDone /\ IsOk(ret)
    /\ args.token_in \in {0, 1} /\ args.amount_in > 0

C6_Original ==
    StableDone =>
        /\ ret.iters <= MaxIterations
        /\ ret.exhausted => ret.kind = "ConvergenceError"

\* C6 amended: _get_y_aerodrome runs at most 255 iterations; if no iteration
\* meets its convergence test it fails with EVMRevertError (the error kind of
\* the division-by-zero and uint256 range failures; there is no separate
\* convergence error), never returning an approximate y: a returned amount
\* comes from a return inside the loop.
C6_IterationCapRaisesRevert ==
    StableDone =>
        /\ ret.iters <= MaxIterations
        /\ ret.exhausted => (ret.kind = "EVMRevertError" /\ ret.iters = MaxIterations)
        /\ IsOk(ret) => (~ret.exhausted /\ ret.iters \in 1..MaxIterations)

\* A call in which the loop ran all 255 iterations.
C6_Witness ==
    StableDone /\ ret.exhausted /\ ret.iters = MaxIterations

\* C7: when _d evaluates to 0 inside solidly_calc_exact_in_stable the call
\* fails with EVMRevertError, and no call surfaces a ZeroDivisionError.
C7_DivisionByZeroIsRevert ==
    StableDone =>
        /\ ret.kind # "ZeroDivisionError"
        /\ ret.dzero => ret.kind = "EVMRevertError"

\* A call with positive reserves and amount in which _d evaluated to 0.
C7_Witness ==
    /\ StableDone /\ ret.dzero
    /\ args.reserves0 > 0 /\ args.reserves1 > 0 /\ args.amount_in > 0

\* The values of y in the returned trace: the return comes at the first step
\* of at most 1, or after all 255 iterations.
CamelotReturnsFirstSmallStep ==
    LET t == ret.trace
        n == ret.iters
    IN  /\ n \in 1..MaxIterations
        /\ Len(t) = n + 1
        /\ t[1] = args.y
        /\ ret.value = t[n + 1]
        /\ \A j \in 1..(n - 1) : Abs(t[j + 1] - t[j]) > 1
        /\ (Abs(t[n + 1] - t[n]) <= 1 \/ n = MaxIterations)

\* C8 as stated: for every input _get_y_camelot terminates with a value: y at
\* the first iteration with |y - y_prev| <= 1, else the last y after exactly 255
\* iterations.
C8_Original ==
    CamelotDone => (IsOk(ret) /\ CamelotReturnsFirstSmallStep)

\* C8 amended: _get_y_camelot returns y at the first iteration with
\* |y - y_prev| <= 1, else the last y after exactly 255 iterations, and never
\* raises a convergence error; but it does not return for every input: when
\* _d(x_0, y) evaluates to 0 in an iteration it raises ZeroDivisionError.
C8_CamelotReturnsOrDividesByZero ==
    CamelotDone =>
        /\ ret.kind \in {"ok", "ZeroDivisionError"}
        /\ (ret.kind = "ZeroDivisionError") <=> ret.dzero
        /\ IsOk(ret) => CamelotReturnsFirstSmallStep

\* A return after all 255 iterations with a last step larger than 1.
C8_Witness ==
    /\ CamelotDone /\ IsOk(ret) /\ ret.exhausted
    /\ ret.iters = MaxIterations
    /\ Abs(ret.trace[MaxIterations + 1] - ret.trace[MaxIterations]) > 1

----------------------------------------------------------------------------
(* Properties of the pool facade (Spec) *)

TokenRecognized ==
    call.token_in \in {pool.token0.address, pool.token1.address}

NothingComputed ==
    call.live_reads = 0 /\ call.override_reads = 0 /\ call.solver_calls = 0

\* C2: calculate_tokens_out_from_tokens_in rejects a token_in that is neither
\* token0 nor token1 with the value error (DegenbotValueError) and, for a
\* recognized token, a token_in_quantity <= 0 with ZeroSwapError; a rejected
\* call has read no reserves, live or override, and has run no solver.
C2_ValidationRejectsFirst ==
    call.pc # "none" =>
        /\ ~TokenRecognized =>
               /\ call.pc \in {"check_token", "done"}
               /\ call.pc = "done" => call.outcome.kind = "DegenbotValueError"
               /\ NothingComputed
        /\ (TokenRecognized /\ call.token_in_quantity <= 0) =>
               /\ call.pc \in {"check_token", "check_quantity", "done"}
               /\ call.pc = "done" => call.outcome.kind = "ZeroSwapError"
               /\ NothingComputed

\* A call with an override and a zero amount, rejected with ZeroSwapError.
C2_Witness ==
    /\ call.pc = "done"
    /\ TokenRecognized /\ call.token_in_quantity = 0
    /\ call.override_state # None
    /\ call.outcome.kind = "ZeroSwapError"

\* The result for the call's token and amount at the given reserves.
ResultAt(r0, r1) ==
    PoolCalc(IF call.token_in = pool.token0.address THEN 0 ELSE 1,
             call.token_in_quantity, r0, r1)

\* C9: with an override_state, the result is the one computed from the
\* override's reserves, whatever the pool's live reserves are at any moment of
\* the call (so pools that differ only in live reserves agree).
C9_OverrideDecidesResult ==
    (call.pc = "done" /\ call.override_state # None
        /\ TokenRecognized /\ call.token_in_quantity > 0)
    => /\ call.outcome = ResultAt(call.override_state.reserves_token0,
                                  call.override_state.reserves_token1)
       /\ call.live_reads = 0

\* A call with an override whose result differs from the result at the live
\* reserves.
C9_Witness ==
    /\ call.pc = "done" /\ call.override_state # None
    /\ TokenRecognized /\ call.token_in_quantity > 0
    /\ IsOk(call.outcome) /\ call.outcome.value > 0
    /\ state.reserves_token0 # call.override_state.reserves_token0
    /\ state.reserves_token1 # call.override_state.reserves_token1
    /\ ResultAt(state.reserves_token0, state.reserves_token1) # call.outcome

\* C10: no step of calculate_tokens_out_from_tokens_in, from entry to return
\* or raise, with or without override_state, changes the pool's live state.
C10_CallLeavesStateAlone ==
    [][call' # call => state' = state]_vars

\* A call with an override that differs from the live state, ended by a
\* simulated revert.
C10_Witness ==
    /\ call.pc = "done" /\ call.override_state # None
    /\ call.override_state # state
    /\ call.outcome.kind = "EVMRevertError"

\* C11: a calculation without override_state takes its two reserves from one
\* single live state object: the state read for reserves_0 is the state read
\* for reserves_1, whatever replacements run during the call.
C11_Original ==
    (call.pc = "done" /\ call.override_state = None /\ call.live_reads = 2)
    => call.state_0 = call.state_1

\* The statements of the call before the solver is called: the two checks and
\* the two reserve reads.
ChecksAndReads ==
    CheckToken \/ CheckQuantity \/ ReadReserves0 \/ ReadReserves1

\* C13: a calculation with override_state never waits for the pool's state
\* lock: each of its checks and reserve reads can run whoever holds the lock,
\* the solver is called on the override's reserves with no read of the live
\* state, and the result is the one computed from the override, whatever
\* replacements run during the call.
C13_OverrideCallIgnoresLock ==
    call.pc # "none" /\ call.override_state # None =>
        /\ call.pc \notin {"dispatch", "done"} => ENABLED ChecksAndReads
        /\ call.pc = "dispatch" =>
               /\ call.live_reads = 0
               /\ call.reserves_0 = call.override_state.reserves_token0
               /\ call.reserves_1 = call.override_state.reserves_token1
        /\ (call.pc = "done" /\ TokenRecognized /\ call.token_in_quantity > 0) =>
               /\ call.live_reads = 0
               /\ call.outcome = ResultAt(call.override_state.reserves_token0,
                                          call.override_state.reserves_token1)

\* A call with an override that read both reserves while __getstate__ held the
\* lock and returned an amount, the live state being another state.
C13_Witness ==
    /\ call.pc = "done" /\ call.override_state # None
    /\ call.lock_0 = "__getstate__" /\ call.lock_1 = "__getstate__"
    /\ IsOk(call.outcome) /\ call.outcome.value > 0
    /\ state # call.override_state

----------------------------------------------------------------------------
(* Properties of the setters and the subscribers (SpecThreads) *)

\* Thread t has finished a call of the setter of prop.
SetterDone(t, prop) == setters[t].pc = "done" /\ setters[t].prop = prop

\* C12: when one thread has set reserves_token0 := a and another has set
\* reserves_token1 := b, and both calls have returned, the live state has
\* reserves (a, b): no update is lost.
C12_Original ==
    \A t \in SetterThreads, u \in SetterThreads :
        (SetterDone(t, "reserves_token0") /\ SetterDone(u, "reserves_token1"))
        => /\ state.reserves_token0 = setters[t].new_reserves
           /\ state.reserves_token1 = setters[u].new_reserves

\* A setter call commits its new state in this step.
Replaced ==
    \E t \in SetterThreads : setters[t].pc # "done" /\ setters'[t].pc = "done"

\* C14: every replacement of the live state, through the state setter or a
\* reserves setter, emits in the same step exactly one notification to each
\* current subscriber.
C14_Original ==
    [][Replaced => notifications' = _notify_subscribers(notifications)]_vars

----------------------------------------------------------------------------
(* Properties of the tokens (SpecToken) *)

\* C15: after construction token0 < token1 by the value of the address,
\* whether the tokens were supplied in either order or read from the chain.
C15_Original ==
    (fn = "__init__" /\ ret.kind = "ok") =>
        AddressValue(ret.token0.address) < AddressValue(ret.token1.address)

\* The forms that give an address: as a string in three letter cases and as
\* raw bytes.
AddressForms == {"checksum", "lower", "upper", "bytes", "HexBytes"}

AsToken(t) == [type |-> "token", address |-> t.address]

\* C18: a token compares equal to its own address given as a string in any
\* letter case and as raw bytes (bytes or HexBytes), and unequal to a token
\* with a different address.
C18_Original ==
    (fn = "__eq__" /\ ret.kind = "ok") =>
        /\ (args.form \in AddressForms /\ args.other = args.self) => ret.value
        /\ (args.form = "token" /\ args.other # args.self) => ~ret.value

\* C19: if token a > token b then a > b's address in every string case and as
\* bytes, and b < a's address in all of those forms.
C19_Original ==
    /\ (fn = "__gt__" /\ ret.kind = "ok" /\ args.form \in AddressForms
            /\ TokenGt(args.self, AsToken(args.other)).value)
       => ret.value
    /\ (fn = "__lt__" /\ ret.kind = "ok" /\ args.form \in AddressForms
            /\ TokenGt(args.other, AsToken(args.self)).value)
       => ret.value

----------------------------------------------------------------------------
(* Properties of the integer helpers (SpecMath) *)

Sign(n) == IF n < 0 THEN -1 ELSE IF n > 0 THEN 1 ELSE 0

\* C16: for every n and every non-zero d of either sign, evm_divide(n, d) is
\* the quotient rounded toward zero: sign(n) * sign(d) * floor(|n| / |d|).
C16_Original ==
    (fn = "evm_divide" /\ ret # Pending /\ args.denominator # 0) =>
        /\ IsOk(ret)
        /\ ret.value = Sign(args.numerator) * Sign(args.denominator)
                           * (Abs(args.numerator) \div Abs(args.denominator))

\* C17: for x >= 0 and y > 0, div_rounding_up(x, y) is the smallest q with
\* q * y >= x, that is x // y plus 1 exactly when the remainder is non-zero;
\* for y = 0 it returns 0.
C17_DivRoundingUpIsCeiling ==
    (fn = "div_rounding_up" /\ ret # Pending /\ args.x >= 0 /\ args.y >= 0) =>
        /\ IsOk(ret)
        /\ args.y = 0 => ret.value = 0
        /\ args.y > 0 =>
               /\ ret.value * args.y >= args.x
               /\ (ret.value - 1) * args.y < args.x
               /\ ret.value = (args.x \div args.y)
                                  + (IF args.x % args.y # 0 THEN 1 ELSE 0)

\* A call with a remainder, rounded up to more than 1.
C17_Witness ==
    /\ fn = "div_rounding_up" /\ IsOk(ret)
    /\ args.x > 0 /\ args.y > 1 /\ args.x % args.y # 0
    /\ ret.value = (args.x \div args.y) + 1 /\ ret.value > 1

\* C27: whenever solidly_calc_exact_in_stable returns (amount_in > 0, both
\* reserves > 0, fee in [0,1), token_in in {0,1}), the returned amount is
\* >= 0 and strictly less than the output token's reserve.
C27_Original ==
    (StableAccepted /\ args.reserves0 > 0 /\ args.reserves1 > 0) =>
        /\ ret.value >= 0
        /\ ret.value < ReserveOut

----------------------------------------------------------------------------
(* Properties of the V3 state objects (SpecV3State) *)

\* C21: a state object is an immutable snapshot: an operation on another
\* state object (the one it was copied from, a copy of it, a state built
\* later) changes nothing of what is observed through it: liquidity, sqrt
\* price, tick, tick-bitmap words, per-tick liquidity values.
C21_Original ==
    [][\A s \in DOMAIN snapshots : op'.target # s => View(s)' = View(s)]_vars

----------------------------------------------------------------------------
(* Properties of fetch_logs_retrying (SpecFetch, SpecFetchLive) *)

\* The successful get_logs requests, in the order they were made.
OkCalls == SelectSeq(get_logs_calls, LAMBDA c : c.outcome = "ok")

\* The responses of a sequence of requests, concatenated in order.
RECURSIVE Responses(_)
Responses(calls) ==
    IF calls = <<>> THEN <<>>
    ELSE get_logs(Head(calls).fromBlock, Head(calls).toBlock) \o Responses(Tail(calls))

\* The number of requests at the end of the history that did not succeed:
\* the attempts made so far on the chunk that was last requested.
RECURSIVE TrailingFailures(_)
TrailingFailures(calls) ==
    IF calls = <<>> \/ calls[Len(calls)].outcome = "ok" THEN 0
    ELSE 1 + TrailingFailures(SubSeq(calls, 1, Len(calls) - 1))

FetchReturned == fetch.pc = "done" /\ IsOk(ret)

\* C23: when the call returns (start_block <= end_block), the successful
\* requests are contiguous, non-overlapping, ascending chunks that cover
\* every block of [start_block, end_block] exactly once, and the returned
\* list is the concatenation of their responses in that order; at any time
\* the collected logs hold nothing from a failed attempt.
C23_ChunksCoverRangeOnce ==
    /\ fetch.pc # "none" => fetch.event_logs = Responses(OkCalls)
    /\ (FetchReturned /\ args.start_block <= args.end_block) =>
           /\ OkCalls # <<>>
           /\ OkCalls[1].fromBlock = args.start_block
           /\ OkCalls[Len(OkCalls)].toBlock = args.end_block
           /\ \A i \in 1..Len(OkCalls) : OkCalls[i].fromBlock <= OkCalls[i].toBlock
           /\ \A i \in 1..(Len(OkCalls) - 1) :
                  OkCalls[i + 1].fromBlock = OkCalls[i].toBlock + 1
           /\ \A b \in args.start_block..args.end_block :
                  Cardinality({i \in 1..Len(OkCalls) :
                      OkCalls[i].fromBlock <= b /\ b <= OkCalls[i].toBlock}) = 1
           /\ ret.value = Responses(OkCalls)
           /\ ret.value = get_logs(args.start_block, args.end_block)

\* A return after three chunks, with failed attempts in between.
C23_Witness ==
    /\ FetchReturned
    /\ Len(OkCalls) = 3
    /\ Len(get_logs_calls) > 4
    /\ get_logs_calls[1].outcome # "ok"

\* C24: the call raises DegenbotError exactly when the chunk last requested
\* failed with Timeout / Web3RPCError on max_retries consecutive attempts
\* (attempts on earlier chunks do not count), and then returns nothing; any
\* other exception ends the call at once with that exception; while the call
\* runs, the current chunk has failed fewer than max_retries times.
C24_RetriesPerChunk ==
    fetch.pc # "none" =>
        LET failed == TrailingFailures(get_logs_calls)
            last == get_logs_calls[Len(get_logs_calls)]
        IN  /\ \A i \in 1..(Len(get_logs_calls) - 1) :
                   get_logs_calls[i].outcome \in RetryableErrors \cup {"ok"}
            /\ fetch.pc = "attempt" => failed < args.max_retries
            /\ fetch.pc = "done" =>
                   /\ ret.kind = "DegenbotError" <=>
                          (failed = args.max_retries /\ last.outcome \in RetryableErrors)
                   /\ ret.kind \in OtherErrors <=> last.outcome \in OtherErrors
                   /\ last.outcome \in OtherErrors => ret.kind = last.outcome
                   /\ IsOk(ret) <=> last.outcome = "ok"

\* DegenbotError on a later chunk, after an earlier chunk had failed
\* max_retries - 1 times and then succeeded.
C24_Witness ==
    /\ fetch.pc = "done" /\ ret.kind = "DegenbotError"
    /\ args.max_retries = 2
    /\ Len(get_logs_calls) = 4
    /\ get_logs_calls[1].outcome \in RetryableErrors
    /\ get_logs_calls[2].outcome = "ok"
    /\ fetch.event_logs # <<>>

\* C25: with max_blocks_per_request >= 1 (5,000 when None is passed) the
\* working span stays within [1, max_blocks_per_request], every get_logs
\* request spans at most max_blocks_per_request blocks and never reaches past
\* end_block, and the call terminates.
C25_Bounds ==
    fetch.pc # "none" =>
        /\ args.max_blocks_per_request = <<>> => fetch.max_blocks_per_request = 5000
        /\ args.max_blocks_per_request # <<>> =>
               fetch.max_blocks_per_request = args.max_blocks_per_request[1]
        /\ 1 <= fetch.working_span
        /\ fetch.working_span <= fetch.max_blocks_per_request
        /\ \A i \in 1..Len(get_logs_calls) :
               /\ get_logs_calls[i].toBlock - get_logs_calls[i].fromBlock + 1
                      <= fetch.max_blocks_per_request
               /\ get_logs_calls[i].toBlock <= args.end_block

C25_SpanBoundedAndTerminates ==
    []C25_Bounds /\ <>(fetch.pc = "done")

\* A return after a request of the full max_blocks_per_request blocks and a
\* later one cut short at end_block, the span left below the cap.
C25_Witness ==
    /\ FetchReturned
    /\ fetch.max_blocks_per_request > 1
    /\ fetch.working_span < fetch.max_blocks_per_request
    /\ \E i \in 1..Len(get_logs_calls) :
           get_logs_calls[i].toBlock - get_logs_calls[i].fromBlock + 1
               = fetch.max_blocks_per_request
    /\ Len(OkCalls) >= 2
    /\ OkCalls[Len(OkCalls)].toBlock = args.end_block

\* C26: the working span is halved (never below 1) after each failed attempt
\* and is increased after each successful fetch while it is below
\* max_blocks_per_request (so that enough consecutive successes bring it back
\* to max_blocks_per_request).
C26_Original ==
    [][fetch.pc = "attempt" =>
          LET last == get_logs_calls'[Len(get_logs_calls')]
          IN  /\ last.outcome \in RetryableErrors =>
                     fetch'.working_span = max(1, fetch.working_span \div 2)
              /\ (last.outcome = "ok"
                      /\ fetch.working_span < fetch.max_blocks_per_request) =>
                     fetch'.working_span > fetch.working_span]_vars

----------------------------------------------------------------------------
(* Properties of the subscriber set (SpecSubscribers) *)

\* The messages published while the latest call of s was subscribe, in order.
RECURSIVE Due(_, _)
Due(s, sent) ==
    IF sent = <<>> THEN <<>>
    ELSE (IF Head(sent).latest[s].name = "subscribe"
          THEN <<[from |-> PoolAddress, message |-> Head(sent).message]>>
          ELSE <<>>) \o Due(s, Tail(sent))

\* C28: after any sequence of subscribe and unsubscribe calls, a notification
\* is delivered exactly once to each subscriber whose latest call was
\* subscribe and to no one else (repeated subscribe is idempotent,
\* unsubscribe of a non-subscriber is a no-op, nothing is received after
\* unsubscribe): each inbox holds exactly the messages published while its
\* owner's latest call was subscribe.
C28_DeliveredOnceToSubscribed ==
    published # <<>> => \A s \in Subscribers : inbox[s] = Due(s, published)

\* A message published after s1 subscribed twice in a row and s2 unsubscribed
\* without being subscribed, then one published after s1 unsubscribed.
C28_Witness ==
    /\ Len(published) = 2
    /\ published[1].latest["s1"] = [name |-> "subscribe", repeated |-> TRUE]
    /\ published[1].latest["s2"] = [name |-> "unsubscribe", repeated |-> FALSE]
    /\ published[2].latest["s1"].name = "unsubscribe"
    /\ Len(inbox["s1"]) = 1
    /\ inbox["s2"] = <<>>

----------------------------------------------------------------------------
(* Properties of the balance ledger (SpecLedger) *)

\* The sum of the adjustments made for the address of token t, in any spelling.
RECURSIVE Adjusted(_, _)
Adjusted(t, made) ==
    IF made = <<>> THEN 0
    ELSE (IF lower(Head(made).token) = lower(t) THEN Head(made).amount ELSE 0)
             + Adjusted(t, Tail(made))

\* C29: after any sequence of _adjust_balance calls the ledger is keyed by
\* checksummed address, maps each token to the sum of the adjustments made
\* for it, and holds no entry of value 0 (a token whose adjustments sum to
\* zero is absent).
C29_LedgerIsSumWithoutZeros ==
    adjustments # <<>> =>
        /\ DOMAIN balance \subseteq LedgerTokens
        /\ \A t \in LedgerTokens :
               IF Adjusted(t, adjustments) = 0 THEN t \notin DOMAIN balance
               ELSE t \in DOMAIN balance /\ balance[t] = Adjusted(t, adjustments)

\* Three adjustments: one token adjusted under two spellings back to zero and
\* gone from the ledger, the other present.
C29_Witness ==
    /\ Len(adjustments) = 3
    /\ lower(adjustments[1].token) = lower(adjustments[2].token)
    /\ adjustments[1].token # adjustments[2].token
    /\ adjustments[1].amount > 0
    /\ adjustments[1].amount + adjustments[2].amount = 0
    /\ Cardinality(DOMAIN balance) = 1
    /\ \E t \in DOMAIN balance : balance[t] < 0

----------------------------------------------------------------------------
(* Properties of the anvil command (SpecAnvil) *)

ForkOptionNames == {"--fork-url", "--fork-block-number", "--fork-transaction-hash"}

\* The options of a command with the given name (the part before "=").
Named(command, name) ==
    SelectSeq(command, LAMBDA option : option[1] = name)

\* The options of a command that are none of the three fork options.
OtherOptions(command) ==
    SelectSeq(command, LAMBDA option : option[1] \notin ForkOptionNames)

\* The URL most recently supplied to a reset, or the constructor's.
RECURSIVE LatestUrl(_)
LatestUrl(made) ==
    IF made = <<>> THEN args.fork_url
    ELSE IF made[Len(made)].fork_url # <<>> THEN made[Len(made)].fork_url[1]
    ELSE LatestUrl(SubSeq(made, 1, Len(made) - 1))

\* C30: after any sequence of reset calls the stored command holds exactly
\* one --fork-url option, with the most recently supplied URL (the previous
\* one when none is supplied), and at most one of --fork-block-number /
\* --fork-transaction-hash: that of the last reset, the hash winning when both
\* are passed; every other option is kept, in its original order.
C30_ResetKeepsOneForkSource ==
    resets # <<>> =>
        LET last == resets[Len(resets)]
            blocks == Named(_anvil_command, "--fork-block-number")
            hashes == Named(_anvil_command, "--fork-transaction-hash")
        IN  /\ Named(_anvil_command, "--fork-url")
                   = <<Option("--fork-url", LatestUrl(resets))>>
            /\ _fork_url = LatestUrl(resets)
            /\ Len(blocks) + Len(hashes) <= 1
            /\ hashes = IF last.transaction_hash = <<>> THEN <<>>
                        ELSE <<Option("--fork-transaction-hash",
                                      last.transaction_hash[1])>>
            /\ blocks = IF last.transaction_hash # <<>> \/ last.block_number = <<>>
                        THEN <<>>
                        ELSE <<Option("--fork-block-number",
                                      ToString(last.block_number[1]))>>
            /\ OtherOptions(_anvil_command) = OtherOptions(build_anvil_command(args))

\* A fork built with both a block and a hash, reset to a hash with a block
\* passed too, then reset to block 0 with no URL: the second URL is kept.
C30_Witness ==
    /\ Len(resets) = 2
    /\ args.fork_block # <<>> /\ args.fork_transaction_hash # <<>>
    /\ args.anvil_opts # <<>> /\ args.mining_mode = "none"
    /\ resets[1].fork_url = <<"http://u2">>
    /\ resets[1].block_number # <<>> /\ resets[1].transaction_hash # <<>>
    /\ resets[2] = [fork_url |-> <<>>, block_number |-> <<0>>,
                    transaction_hash |-> <<>>]
    /\ _fork_url = "http://u2"
    /\ Named(_anvil_command, "--fork-block-number")
           = <<Option("--fork-block-number", "0")>>

====
